---------------------------- MODULE Spec2Model ----------------------------
(***************************************************************************)
(* Model of the facexp analysis engine                                     *)
(* (backend/experiments/services/analysis.py, models.py, views.py).        *)
(*                                                                         *)
(* Nested Python values (dict / list / float / int / str / bool / None /   *)
(* numpy array) are records of one shape, so that any two of them can be   *)
(* compared:                                                               *)
(*   t : the Python type                                                   *)
(*   f : for a float, its class "finite" | "nan" | "inf" | "-inf"          *)
(*   n : the payload of a finite number, a string or a bool                *)
(*   k : the keys of a dict, in insertion order                            *)
(*   c : the children of a dict (aligned with k), list or array            *)
(***************************************************************************)
EXTENDS Integers, Sequences, FiniteSets, TLC

VARIABLES
    pc,          \* position of the scenario being run
    obj,         \* the nested value handed to clean_nan_values
    cleaned,     \* clean_nan_values(obj)
    recleaned,   \* clean_nan_values(cleaned)
    lib,         \* what numpy/scipy/statsmodels hand back (float classes, exceptions)
    experiment,  \* the stored Experiment with its factors, response variables, runs
    service,     \* the ExperimentAnalysisService built for the request
    response     \* the HTTP response of the analysis endpoint

vars == <<pc, obj, cleaned, recleaned, lib, experiment, service, response>>

----------------------------------------------------------------------------
(* Bounds *)

MaxDepth == 2

----------------------------------------------------------------------------
(* Nested values *)

Node(t, f, n, k, c) == [t |-> t, f |-> f, n |-> n, k |-> k, c |-> c]

PyNone       == Node("none", "", 0, <<>>, <<>>)
PyFloat(n)   == Node("float", "finite", n, <<>>, <<>>)
PyNaN        == Node("float", "nan", 0, <<>>, <<>>)
PyInf        == Node("float", "inf", 0, <<>>, <<>>)
PyNegInf     == Node("float", "-inf", 0, <<>>, <<>>)
PyInt(n)     == Node("int", "", n, <<>>, <<>>)
PyStr(n)     == Node("str", "", n, <<>>, <<>>)
PyBool(b)    == Node("bool", "", IF b THEN 1 ELSE 0, <<>>, <<>>)
PyList(c)    == Node("list", "", 0, <<>>, c)
PyDict(k, c) == Node("dict", "", 0, k, c)
PyArray(c)   == Node("ndarray", "", 0, <<>>, c)

IsContainer(v) == v.t \in {"dict", "list", "ndarray"}
IsNonFinite(v) == v.t = "float" /\ v.f # "finite"

RECURSIVE Depth(_)
Depth(v) ==
    IF v.c = <<>> THEN 0
    ELSE 1 + Depth(v.c[CHOOSE i \in DOMAIN v.c :
                         \A j \in DOMAIN v.c : Depth(v.c[j]) <= Depth(v.c[i])])

\* numpy.ndarray.tolist(): a list of Python scalars, nested arrays as lists
RECURSIVE tolist(_)
tolist(v) ==
    IF v.t = "ndarray"
    THEN PyList([i \in DOMAIN v.c |-> tolist(v.c[i])])
    ELSE v

\* pandas.isna on a scalar: None and NaN are missing, everything else is not
pd_isna(v) == v.t = "none" \/ (v.t = "float" /\ v.f = "nan")

\* clean_nan_values with None mapped to a default number
RECURSIVE clean_nan_values_fill(_)
clean_nan_values_fill(o) ==
    IF o.t = "dict" \/ o.t = "list"
    THEN [o EXCEPT !.c = [i \in DOMAIN o.c |-> clean_nan_values_fill(o.c[i])]]
    ELSE IF o.t = "float"
    THEN (IF o.f = "nan" \/ o.f \in {"inf", "-inf"} THEN PyNone ELSE o)
    ELSE IF pd_isna(o) THEN PyFloat(0)
    ELSE o

\* clean_nan_values that does not descend into lists
RECURSIVE clean_nan_values_flat(_)
clean_nan_values_flat(o) ==
    IF o.t = "dict"
    THEN [o EXCEPT !.c = [i \in DOMAIN o.c |-> clean_nan_values_flat(o.c[i])]]
    ELSE IF o.t = "float"
    THEN (IF o.f = "nan" \/ o.f \in {"inf", "-inf"} THEN PyNone ELSE o)
    ELSE IF o.t = "list" THEN o
    ELSE IF pd_isna(o) THEN PyNone
    ELSE o

\* clean_nan_values that tests only for NaN
RECURSIVE clean_nan_values_nanonly(_)
clean_nan_values_nanonly(o) ==
    IF o.t = "dict" \/ o.t = "list"
    THEN [o EXCEPT !.c = [i \in DOMAIN o.c |-> clean_nan_values_nanonly(o.c[i])]]
    ELSE IF o.t = "float"
    THEN (IF o.f = "nan" THEN PyNone ELSE o)
    ELSE IF pd_isna(o) THEN PyNone
    ELSE o

RECURSIVE clean_nan_values(_)
clean_nan_values(o) ==
    IF o.t = "dict"
    THEN [o EXCEPT !.c = [i \in DOMAIN o.c |-> clean_nan_values(o.c[i])]]
    ELSE IF o.t = "list"
    THEN [o EXCEPT !.c = [i \in DOMAIN o.c |-> clean_nan_values(o.c[i])]]
    ELSE IF o.t = "float"
    THEN (IF o.f = "nan" \/ o.f \in {"inf", "-inf"} THEN PyNone ELSE o)
    ELSE IF o.t = "ndarray"
    THEN clean_nan_values(tolist(o))
    ELSE IF pd_isna(o) THEN PyNone
    ELSE o

----------------------------------------------------------------------------
(* Scenario 1: the sanitizer on nested values built bottom-up *)

FloatClasses == {"finite", "nan", "inf", "-inf"}

NoLib ==
    [y |-> "finite", fit |-> "finite", std |-> "finite", test |-> "finite",
     zero |-> FALSE, raises |-> "", p |-> "high"]

NoExperiment == [factors |-> <<>>, response_variables |-> <<>>, runs |-> <<>>]
NoService == [built |-> FALSE]
NoResponse == [status |-> 0]

Leaves ==
    {PyNone, PyFloat(0), PyFloat(1), PyNaN, PyInf, PyNegInf,
     PyInt(7), PyStr(1), PyBool(TRUE)}

Siblings == {PyNaN, PyNegInf, PyFloat(1), PyNone}

InitSanitize ==
    /\ pc = "build"
    /\ obj \in Leaves \cup {PyList(<<>>), PyDict(<<>>, <<>>)}
    /\ cleaned = PyNone
    /\ recleaned = PyNone
    /\ lib = NoLib
    /\ experiment = NoExperiment
    /\ service = NoService
    /\ response = NoResponse

WrapList ==
    /\ pc = "build"
    /\ Depth(obj) < MaxDepth
    /\ \/ obj' = PyList(<<obj>>)
       \/ \E s \in Siblings : obj' = PyList(<<obj, s>>)
       \/ \E s \in Siblings : obj' = PyList(<<s, obj>>)
    /\ UNCHANGED <<pc, cleaned, recleaned, lib, experiment, service, response>>

WrapDict ==
    /\ pc = "build"
    /\ Depth(obj) < MaxDepth
    /\ \/ obj' = PyDict(<<"a">>, <<obj>>)
       \/ \E s \in Siblings : obj' = PyDict(<<"a", "b">>, <<obj, s>>)
       \/ \E s \in Siblings : obj' = PyDict(<<"b", "a">>, <<s, obj>>)
    /\ UNCHANGED <<pc, cleaned, recleaned, lib, experiment, service, response>>

Sanitize ==
    /\ pc = "build"
    /\ cleaned' = clean_nan_values(obj)
    /\ pc' = "cleaned"
    /\ UNCHANGED <<obj, recleaned, lib, experiment, service, response>>

SanitizeAgain ==
    /\ pc = "cleaned"
    /\ recleaned' = clean_nan_values(cleaned)
    /\ pc' = "recleaned"
    /\ UNCHANGED <<obj, cleaned, lib, experiment, service, response>>

NextSanitize == WrapList \/ WrapDict \/ Sanitize \/ SanitizeAgain

SpecSanitize == InitSanitize /\ [][NextSanitize]_vars

----------------------------------------------------------------------------
\* C3: the sanitizer is idempotent: sanitizing an already sanitized nested
\* value changes nothing
C3_Idempotent == pc = "recleaned" => recleaned = cleaned

C3_Witness ==
    /\ pc = "recleaned"
    /\ Depth(obj) = MaxDepth
    /\ cleaned # obj

\* y is x with every non-finite float leaf replaced by null
RECURSIVE Conforms(_, _)
Conforms(x, y) ==
    IF x.t \in {"dict", "list"}
    THEN /\ y.t = x.t
         /\ y.k = x.k
         /\ Len(y.c) = Len(x.c)
         /\ \A i \in DOMAIN x.c : Conforms(x.c[i], y.c[i])
    ELSE IF IsNonFinite(x) THEN y = PyNone
    ELSE y = x

\* C4: the sanitizer raises on no well-typed nested value and returns a value
\* of the same shape (same keys, same lengths and order at every depth) in
\* which each NaN or infinite float leaf is null and everything else is
\* unchanged
C4_SameShapeNonFiniteNulled == pc \in {"cleaned", "recleaned"} => Conforms(obj, cleaned)

RECURSIVE HasNonFinite(_)
HasNonFinite(v) == IsNonFinite(v) \/ \E i \in DOMAIN v.c : HasNonFinite(v.c[i])

C4_Witness ==
    /\ pc = "cleaned"
    /\ obj.t = "dict"
    /\ \E i \in DOMAIN obj.c : obj.c[i].t = "list" /\ HasNonFinite(obj.c[i])
    /\ \E i \in DOMAIN obj.c : obj.c[i].t = "float" /\ obj.c[i].f = "finite"

----------------------------------------------------------------------------
(* Scenario 2: the mapping compute_full_analysis composes and returns.     *)
(* The numbers themselves come from numpy, scipy and statsmodels; lib      *)
(* gives the float class of each family of them:                           *)
(*   y    statistics of the selected response (means, totals, effects)     *)
(*   fit  statistics of the fitted OLS model                               *)
(*   std  residuals divided by their standard deviation                    *)
(*   test Shapiro-Wilk and Durbin-Watson statistics                        *)
(*   zero whether a guarded denominator (mean, total effect, SST) is 0     *)

Fl(cl) == Node("float", cl, IF cl = "finite" THEN 1 ELSE 0, <<>>, <<>>)

\* float(x) if not pd.isna(x) else None
float_unless_na(v) == IF pd_isna(v) THEN PyNone ELSE v

metadata_section ==
    PyDict(<<"experiment_id", "experiment_slug", "experiment_title", "design_type",
             "response_variable", "num_factors", "num_runs", "factors">>,
           <<PyInt(1), PyStr(1), PyStr(2), PyStr(3), PyStr(4), PyInt(1), PyInt(2),
             PyList(<<PyDict(<<"id", "name", "symbol", "data_type">>,
                             <<PyInt(1), PyStr(5), PyStr(6), PyStr(7)>>)>>)>>)

summary_section(l) ==
    PyDict(<<"mean", "std", "min", "max", "range", "cv">>,
           <<Fl(l.y), Fl(l.y), Fl(l.y), Fl(l.y), Fl(l.y),
             IF l.zero THEN PyNone ELSE Fl(l.y)>>)

anova_row(l) ==
    PyDict(<<"source", "df", "sum_sq", "mean_sq", "f_value", "p_value",
             "is_significant">>,
           <<PyStr(8), PyInt(1), float_unless_na(Fl(l.fit)),
             IF pd_isna(Fl(l.fit)) THEN PyNone ELSE Fl(l.fit),
             float_unless_na(Fl(l.fit)), float_unless_na(Fl(l.fit)),
             PyBool(FALSE)>>)

anova_total_row(l) ==
    PyDict(<<"source", "df", "sum_sq", "mean_sq", "f_value", "p_value",
             "is_significant">>,
           <<PyStr(9), PyInt(1), IF pd_isna(Fl(l.fit)) THEN PyFloat(0) ELSE Fl(l.fit),
             PyNone, PyNone, PyNone, PyBool(FALSE)>>)

anova_section(l) ==
    PyDict(<<"table", "model_f_statistic", "model_p_value", "r_squared",
             "r_squared_adj">>,
           <<PyList(<<anova_row(l), anova_total_row(l)>>),
             float_unless_na(Fl(l.fit)), float_unless_na(Fl(l.fit)),
             float_unless_na(Fl(l.fit)), float_unless_na(Fl(l.fit))>>)

regression_section(l) ==
    PyDict(<<"coefficients", "equation", "r_squared", "r_squared_adj", "rmse",
             "aic", "bic">>,
           <<PyList(<<PyDict(<<"term", "coefficient", "std_error", "t_value",
                               "p_value", "ci_lower", "ci_upper", "is_significant">>,
                             <<PyStr(10), float_unless_na(Fl(l.fit)),
                               float_unless_na(Fl(l.fit)), float_unless_na(Fl(l.fit)),
                               float_unless_na(Fl(l.fit)), float_unless_na(Fl(l.fit)),
                               float_unless_na(Fl(l.fit)), PyBool(FALSE)>>)>>),
             PyStr(11), float_unless_na(Fl(l.fit)), float_unless_na(Fl(l.fit)),
             float_unless_na(Fl(l.fit)), float_unless_na(Fl(l.fit)),
             float_unless_na(Fl(l.fit))>>)

main_effect_entry(l) ==
    PyDict(<<"factor", "symbol", "effect", "levels", "means">>,
           <<PyStr(5), PyStr(6), Fl(l.y), PyList(<<PyFloat(1), PyFloat(2)>>),
             PyList(<<Fl(l.y), PyNone>>)>>)

interaction_entry(l) ==
    PyDict(<<"factors", "effect", "cell_means">>,
           <<PyList(<<PyStr(6), PyStr(12)>>), Fl(l.y),
             PyDict(<<"A=1.0,B=1.0", "A=1.0,B=2.0">>, <<Fl(l.y), Fl(l.y)>>)>>)

effects_section(l) ==
    PyDict(<<"main_effects", "interactions">>,
           <<PyDict(<<"A">>, <<main_effect_entry(l)>>),
             PyDict(<<"A:B">>, <<interaction_entry(l)>>)>>)

residuals_section(l) ==
    PyDict(<<"residuals", "fitted_values", "standardized_residuals",
             "normality_test", "autocorrelation_test", "residual_stats">>,
           <<PyList(<<Fl(l.fit), Fl(l.fit)>>),
             PyList(<<Fl(l.fit), Fl(l.fit)>>),
             PyList(<<Fl(l.std), Fl(l.std)>>),
             PyDict(<<"test", "statistic", "p_value", "is_normal">>,
                    <<PyStr(13), Fl(l.test), Fl(l.test), PyBool(TRUE)>>),
             PyDict(<<"test", "statistic", "interpretation">>,
                    <<PyStr(14), Fl(l.test), PyStr(15)>>),
             PyDict(<<"mean", "std", "min", "max">>,
                    <<Fl(l.fit), Fl(l.fit), Fl(l.fit), Fl(l.fit)>>)>>)

plots_data_section(l) ==
    PyDict(<<"pareto", "main_effects", "interactions", "residuals">>,
           <<PyDict(<<"labels", "values", "cumulative">>,
                    <<PyList(<<PyStr(6), PyStr(16)>>),
                      PyList(<<Fl(l.y), Fl(l.y)>>),
                      PyList(IF l.zero THEN <<PyInt(0), PyInt(0)>>
                                        ELSE <<Fl(l.y), Fl(l.y)>>)>>),
             PyDict(<<"A">>,
                    <<PyDict(<<"levels", "means">>,
                             <<main_effect_entry(l).c[4], main_effect_entry(l).c[5]>>)>>),
             PyList(<<PyDict(<<"interaction", "factors", "cell_means">>,
                             <<PyStr(16), interaction_entry(l).c[1],
                               interaction_entry(l).c[3]>>)>>),
             PyDict(<<"residuals", "fitted", "standardized">>,
                    <<residuals_section(l).c[1],
                      residuals_section(l).c[2],
                      residuals_section(l).c[3]>>)>>)

plot_factor ==
    PyDict(<<"id", "name", "symbol", "levels">>,
           <<PyInt(1), PyStr(5), PyStr(6), PyList(<<PyFloat(1), PyFloat(2)>>)>>)

plot_points(l) ==
    PyList(<<PyDict(<<"x", "y", "std", "n", "raw_values">>,
                    <<PyFloat(1), Fl(l.y), Fl(l.y), PyInt(2),
                      PyList(<<Fl(l.y), Fl(l.y)>>)>>),
             PyDict(<<"x", "y", "std", "n", "raw_values">>,
                    <<PyFloat(2), PyNone, PyNone, PyInt(0), PyList(<<>>)>>)>>)

interaction_data_section(l) ==
    PyDict(<<"combinations", "default_x", "default_lines">>,
           <<PyList(<<PyDict(<<"factor_x", "factor_lines", "series">>,
                             <<plot_factor, plot_factor,
                               PyList(<<PyDict(<<"name", "level", "points">>,
                                               <<PyStr(17), PyFloat(1),
                                                 plot_points(l)>>)>>)>>)>>),
             PyStr(6), PyStr(12)>>)

design_matrix_section(l) ==
    PyDict(<<"headers", "runs", "totals", "means", "effects", "contributions",
             "n_runs", "is_two_level_factorial">>,
           <<PyList(<<PyDict(<<"symbol", "name", "type">>,
                             <<PyStr(18), PyStr(19), PyStr(20)>>),
                      PyDict(<<"symbol", "name", "type", "factor_id", "data_type",
                               "level_mapping">>,
                             <<PyStr(6), PyStr(5), PyStr(21), PyInt(1), PyStr(7),
                               PyDict(<<"-1", "1">>, <<PyFloat(1), PyFloat(2)>>)>>),
                      PyDict(<<"symbol", "name", "type">>,
                             <<PyStr(22), PyStr(4), PyStr(23)>>)>>),
             PyList(<<PyDict(<<"run_order", "standard_order", "is_center_point",
                               "values", "values_coded">>,
                             <<PyInt(1), PyInt(1), PyBool(FALSE),
                               PyList(<<PyInt(1), PyFloat(1), Fl(l.y)>>),
                               PyList(<<PyInt(1), PyInt(-1), Fl(l.y)>>)>>),
                      PyDict(<<"run_order", "standard_order", "is_center_point",
                               "values", "values_coded">>,
                             <<PyInt(2), PyInt(2), PyBool(FALSE),
                               PyList(<<PyInt(1), PyFloat(2), PyNone>>),
                               PyList(<<PyInt(1), PyInt(1), PyNone>>)>>)>>),
             PyList(<<Fl(l.y), Fl(l.y), Fl(l.y)>>),
             PyList(<<Fl(l.y), Fl(l.y), Fl(l.y)>>),
             PyList(<<PyNone, Fl(l.y), PyNone>>),
             PyList(<<PyNone, IF l.zero THEN PyNone ELSE Fl(l.y), PyNone>>),
             PyInt(2), PyBool(TRUE)>>)

\* the mapping before it is sanitized
composed_results(l) ==
    PyDict(<<"metadata", "summary", "anova", "regression", "effects", "residuals",
             "plots_data", "interaction_data", "design_matrix">>,
           <<metadata_section, summary_section(l), anova_section(l),
             regression_section(l), effects_section(l),
             residuals_section(l), plots_data_section(l),
             interaction_data_section(l), design_matrix_section(l)>>)

InitFull ==
    /\ pc = "service"
    /\ lib \in [y : FloatClasses, fit : FloatClasses, std : FloatClasses,
                test : FloatClasses, zero : BOOLEAN, raises : {""},
                p : {"high"}]
    /\ experiment = NoExperiment
    /\ service = NoService
    /\ response = NoResponse
    /\ obj = PyNone
    /\ cleaned = PyNone
    /\ recleaned = PyNone

compute_full_analysis ==
    /\ pc = "service"
    /\ obj' = composed_results(lib)
    /\ cleaned' = clean_nan_values(composed_results(lib))
    /\ pc' = "returned"
    /\ UNCHANGED <<recleaned, lib, experiment, service, response>>

NextFull == compute_full_analysis

SpecFull == InitFull /\ [][NextFull]_vars

\* no float below v is NaN or infinite
RECURSIVE FiniteOrNull(_)
FiniteOrNull(v) ==
    /\ v.t = "float" => v.f = "finite"
    /\ \A i \in DOMAIN v.c : FiniteOrNull(v.c[i])

\* C2: every float leaf, at any depth, of the mapping compute_full_analysis
\* returns is finite or null: no NaN and no infinity leaves the engine
C2_NoNonFiniteLeaves == pc = "returned" => FiniteOrNull(cleaned)

C2_Witness ==
    /\ pc = "returned"
    /\ HasNonFinite(obj.c[6].c[3])
    /\ HasNonFinite(obj.c[3].c[5])
    /\ cleaned.t = "dict" /\ Len(cleaned.c) = Len(obj.c)

----------------------------------------------------------------------------
(* The stored data (models.py).                                            *)
(*   experiment.factors            Factor rows, in id order                *)
(*   experiment.response_variables ResponseVariable rows, in id order      *)
(*   experiment.runs               ExperimentRun rows, in creation order   *)
(* factor_values / response_values are JSON objects: functions from keys   *)
(* to JSON values.  A JSON value is a number, null, the text "nan" (which  *)
(* float() turns into NaN) or any other text (which float() rejects).      *)

Num(n)  == [t |-> "num", v |-> n]
Null    == [t |-> "null", v |-> 0]
NaNText == [t |-> "nan", v |-> 0]
Text    == [t |-> "text", v |-> 0]
NaNCell == [t |-> "nan", v |-> 0]

\* dict.get(key)
Get(d, key) == IF key \in DOMAIN d THEN d[key] ELSE Null

Factor(id, symbol, name, data_type) ==
    [id |-> id, symbol |-> symbol, name |-> name, data_type |-> data_type]

ResponseVariable(id, name) == [id |-> id, name |-> name]

ExperimentRun(id, standard_order, run_order, is_excluded, factor_values, response_values) ==
    [id |-> id, standard_order |-> standard_order, run_order |-> run_order,
     is_excluded |-> is_excluded, factor_values |-> factor_values,
     response_values |-> response_values]

RECURSIVE Pow2(_)
Pow2(n) == IF n = 0 THEN 1 ELSE 2 * Pow2(n - 1)

\* ExperimentRun.is_complete
is_complete(exp, run) ==
    LET expected_responses == Len(exp.response_variables)
        filled_responses == Cardinality(DOMAIN run.response_values)
    IN  IF expected_responses > 0
        THEN filled_responses >= expected_responses
        ELSE FALSE

\* QuerySet.filter(is_excluded=False)
filter_not_excluded(runs) == SelectSeq(runs, LAMBDA r : ~r.is_excluded)

\* QuerySet.order_by('standard_order')
RECURSIVE order_by_standard_order(_)
order_by_standard_order(runs) ==
    IF runs = <<>> THEN <<>>
    ELSE LET first == CHOOSE i \in DOMAIN runs :
                        \A j \in DOMAIN runs :
                            \/ runs[i].standard_order < runs[j].standard_order
                            \/ (runs[i].standard_order = runs[j].standard_order /\ i <= j)
             rest == [j \in 1..(Len(runs) - 1) |->
                        IF j < first THEN runs[j] ELSE runs[j + 1]]
         IN  <<runs[first]>> \o order_by_standard_order(rest)

\* QuerySet.order_by over the model's default ordering (run_order)
RECURSIVE order_by_run_order(_)
order_by_run_order(runs) ==
    IF runs = <<>> THEN <<>>
    ELSE LET first == CHOOSE i \in DOMAIN runs :
                        \A j \in DOMAIN runs :
                            \/ runs[i].run_order < runs[j].run_order
                            \/ (runs[i].run_order = runs[j].run_order /\ i <= j)
             rest == [j \in 1..(Len(runs) - 1) |->
                        IF j < first THEN runs[j] ELSE runs[j + 1]]
         IN  <<runs[first]>> \o order_by_run_order(rest)

----------------------------------------------------------------------------
(* Exceptions.  cls is the Python class, msg the message, a and b the      *)
(* counts the message reports; origin records the place that raised.       *)

Exc(cls, origin, msg, a, b) ==
    [cls |-> cls, origin |-> origin, msg |-> msg, a |-> a, b |-> b]

NoExc == Exc("", "", "", 0, 0)

MsgNoRuns       == "Experimento nao possui runs"
MsgNoFactors    == "Experimento nao possui fatores"
MsgNoResponses  == "Experimento nao possui variaveis de resposta"
MsgNoComplete   == "Nenhum run possui todas as respostas preenchidas"
MsgInsufficient == "Numero insuficiente de runs completos. Minimo: {a}, Atual: {b}"
MsgNotFound     == "Variavel de resposta nao encontrada"
MsgNoValid      == "Nenhum valor valido encontrado"
MsgFloat        == "could not convert string to float"

ValidationMessages ==
    {MsgNoRuns, MsgNoFactors, MsgNoResponses, MsgNoComplete, MsgInsufficient}

\* _validate_data with the factor check before the run check
validate_data_factors_first(exp) ==
    LET runs == filter_not_excluded(exp.runs)
        complete_runs == SelectSeq(runs, LAMBDA r : is_complete(exp, r))
        min_runs == Pow2(Len(exp.factors))
    IN  IF Len(exp.factors) = 0
        THEN Exc("ValueError", "validation", MsgNoFactors, 0, 0)
        ELSE IF Len(runs) = 0
        THEN Exc("ValueError", "validation", MsgNoRuns, 0, 0)
        ELSE IF Len(exp.response_variables) = 0
        THEN Exc("ValueError", "validation", MsgNoResponses, 0, 0)
        ELSE IF Len(complete_runs) = 0
        THEN Exc("ValueError", "validation", MsgNoComplete, 0, 0)
        ELSE IF Len(complete_runs) < min_runs
        THEN Exc("ValueError", "validation", MsgInsufficient, min_runs,
                 Len(complete_runs))
        ELSE NoExc

\* ExperimentAnalysisService._validate_data: the exception raised, or NoExc
validate_data(exp) ==
    LET runs == filter_not_excluded(exp.runs)
        complete_runs == SelectSeq(runs, LAMBDA r : is_complete(exp, r))
        num_factors == Len(exp.factors)
        min_runs == Pow2(num_factors)
    IN  IF Len(runs) = 0
        THEN Exc("ValueError", "validation", MsgNoRuns, 0, 0)
        ELSE IF Len(exp.factors) = 0
        THEN Exc("ValueError", "validation", MsgNoFactors, 0, 0)
        ELSE IF Len(exp.response_variables) = 0
        THEN Exc("ValueError", "validation", MsgNoResponses, 0, 0)
        ELSE IF Len(complete_runs) = 0
        THEN Exc("ValueError", "validation", MsgNoComplete, 0, 0)
        ELSE IF Len(complete_runs) < min_runs
        THEN Exc("ValueError", "validation", MsgInsufficient, min_runs,
                 Len(complete_runs))
        ELSE NoExc

----------------------------------------------------------------------------
(* _prepare_dataframes.  A DataFrame built from a list of dicts has the    *)
(* union of the dicts' keys as columns and NaN where a row lacks a key.    *)
(* Columns are named by the position of the factor / response variable     *)
(* (symbols and names are unique within an experiment).                    *)

\* float(value) of a JSON value that is not null
to_float(val) == IF val.t = "num" THEN Num(val.v) ELSE NaNCell

\* querying without order_by: the model's Meta.ordering applies
included_runs_default_order(exp) == order_by_run_order(filter_not_excluded(exp.runs))

\* experiment.runs.filter(is_excluded=False).order_by('standard_order')
included_runs(exp) == order_by_standard_order(filter_not_excluded(exp.runs))

\* pd.DataFrame(list of dicts): key holds each row's order columns, x the others
DataFrame(rows, index) ==
    LET columns == {c \in index : \E i \in DOMAIN rows : c \in DOMAIN rows[i].x}
    IN  [columns |-> columns,
         rows |-> [i \in DOMAIN rows |->
                     [key |-> rows[i].key,
                      x |-> [c \in columns |->
                               IF c \in DOMAIN rows[i].x THEN rows[i].x[c]
                               ELSE NaNCell]]]]

prepare_dataframes(exp) ==
    LET runs == included_runs(exp)
        factors == exp.factors
        responses == exp.response_variables
        design_data ==
            [i \in DOMAIN runs |->
                [key |-> [run_order |-> runs[i].run_order,
                          standard_order |-> runs[i].standard_order],
                 x |-> [j \in {j \in DOMAIN factors :
                                 Get(runs[i].factor_values, factors[j].id) # Null} |->
                          to_float(runs[i].factor_values[factors[j].id])]]]
        response_data ==
            [i \in DOMAIN runs |->
                [key |-> [run_order |-> runs[i].run_order],
                 x |-> [j \in {j \in DOMAIN responses :
                                 Get(runs[i].response_values, responses[j].id) # Null} |->
                          to_float(runs[i].response_values[responses[j].id])]]]
        unconvertible ==
            \E i \in DOMAIN runs :
                \/ \E j \in DOMAIN factors :
                     Get(runs[i].factor_values, factors[j].id).t = "text"
                \/ \E j \in DOMAIN responses :
                     Get(runs[i].response_values, responses[j].id).t = "text"
    IN  IF unconvertible
        THEN [exc |-> Exc("ValueError", "prepare", MsgFloat, 0, 0),
              service |-> NoService]
        ELSE [exc |-> NoExc,
              service |->
                [built |-> TRUE,
                 df_design |-> DataFrame(design_data, DOMAIN factors),
                 df_responses |-> DataFrame(response_data, DOMAIN responses),
                 factors |-> factors,
                 responses |-> responses,
                 num_runs |-> Len(runs)]]

----------------------------------------------------------------------------
(* Numbers of the results: exact rationals n/d in lowest terms (d > 0),    *)
(* NaN, or None.                                                           *)

Abs(i) == IF i < 0 THEN -i ELSE i

RECURSIVE GCD(_, _)
GCD(a, b) == IF b = 0 THEN a ELSE GCD(b, a % b)

Q(n, d) ==
    LET g == GCD(Abs(n), Abs(d))
        sgn == IF d < 0 THEN -1 ELSE 1
    IN  [t |-> "num", n |-> sgn * (n \div g), d |-> sgn * (d \div g)]

QInt(i) == [t |-> "num", n |-> i, d |-> 1]
QNaN    == [t |-> "nan", n |-> 0, d |-> 1]
QNone   == [t |-> "none", n |-> 0, d |-> 1]

QOfCell(cell) == IF cell.t = "num" THEN QInt(cell.v) ELSE QNaN

QAdd(p, q) == IF p.t = "num" /\ q.t = "num"
              THEN Q(p.n * q.d + q.n * p.d, p.d * q.d) ELSE QNaN
QSub(p, q) == IF p.t = "num" /\ q.t = "num"
              THEN Q(p.n * q.d - q.n * p.d, p.d * q.d) ELSE QNaN
QMul(p, q) == IF p.t = "num" /\ q.t = "num"
              THEN Q(p.n * q.n, p.d * q.d) ELSE QNaN
\* division by a non-zero number
QDiv(p, q) == IF p.t = "num" /\ q.t = "num"
              THEN Q(p.n * q.d, p.d * q.n) ELSE QNaN
QAbs(q) == [q EXCEPT !.n = Abs(@)]

QLess(p, q) == p.t = "num" /\ q.t = "num" /\ p.n * q.d < q.n * p.d

RECURSIVE QSum(_)
QSum(seq) == IF seq = <<>> THEN QInt(0) ELSE QAdd(seq[1], QSum(Tail(seq)))

\* max() and min() of a non-empty list of numbers
QMax(seq) == seq[CHOOSE i \in DOMAIN seq : \A j \in DOMAIN seq : ~QLess(seq[i], seq[j])]
QMin(seq) == seq[CHOOSE i \in DOMAIN seq : \A j \in DOMAIN seq : ~QLess(seq[j], seq[i])]

\* sorted(set of integers)
RECURSIVE Sorted(_)
Sorted(S) ==
    IF S = {} THEN <<>>
    ELSE LET m == CHOOSE x \in S : \A y \in S : x <= y
         IN  <<m>> \o Sorted(S \ {m})

\* the value of an expression computed once: the element of a singleton
Only(S) == CHOOSE x \in S : TRUE

\* the entries of seq at the positions in idx, in order
Pick(seq, idx) == [i \in DOMAIN idx |-> seq[idx[i]]]

----------------------------------------------------------------------------
(* Sections computed from the two tables.  r is the selected response      *)
(* column.                                                                 *)

Column(df, c) == [i \in DOMAIN df.rows |-> df.rows[i].x[c]]

\* values of a column after y[~np.isnan(y)], over the rows in idx
NotNaN(col, idx) ==
    LET keep == Sorted({i \in DOMAIN idx : col[idx[i]].t # "nan"})
    IN  [i \in DOMAIN keep |-> QOfCell(col[idx[keep[i]]])]

\* np.mean of a non-empty list
Mean(values) == QDiv(QSum(values), QInt(Len(values)))

\* _compute_summary: the exception raised (exc) or the section
compute_summary(svc, r) ==
    LET col == Column(svc.df_responses, r)
        y == NotNaN(col, [i \in DOMAIN col |-> i])
    IN  IF Len(y) = 0
        THEN [exc |-> Exc("ValueError", "summary", MsgNoValid, 0, 0)]
        ELSE [exc |-> NoExc,
              n |-> Len(y),
              total |-> QSum(y),
              mean |-> Mean(y),
              min |-> QMin(y),
              max |-> QMax(y),
              range |-> QSub(QMax(y), QMin(y))]

\* Series.unique(): the distinct cells in order of first appearance, every
\* missing value being the one NaN
RECURSIVE unique(_)
unique(col) ==
    IF col = <<>> THEN <<>>
    ELSE Only({ IF \E i \in DOMAIN before : before[i] = col[Len(col)]
                THEN before ELSE Append(before, col[Len(col)]) :
                before \in {unique(SubSeq(col, 1, Len(col) - 1))} })

\* a < b on floats: false as soon as one of them is NaN
float_less(a, b) == a.t = "num" /\ b.t = "num" /\ a.v < b.v

\* the order the run that starts the list keeps from element i - 1 to i
run_goes_on(seq, i) ==
    IF float_less(seq[2], seq[1]) THEN float_less(seq[i], seq[i - 1])
    ELSE ~float_less(seq[i], seq[i - 1])

\* list.sort, first step: the length of the run that starts the list
\* (strictly descending, or not descending)
count_run(seq) ==
    CHOOSE m \in 2..Len(seq) :
        /\ \A i \in 3..m : run_goes_on(seq, i)
        /\ m = Len(seq) \/ ~run_goes_on(seq, m + 1)

\* the slot (counted from 0) the pivot is put in among the first r elements
RECURSIVE bisect(_, _, _, _)
bisect(seq, pivot, l, r) ==
    IF l >= r THEN l
    ELSE IF float_less(pivot, seq[(l + ((r - l) \div 2)) + 1])
         THEN bisect(seq, pivot, l, l + ((r - l) \div 2))
         ELSE bisect(seq, pivot, (l + ((r - l) \div 2)) + 1, r)

\* list.sort, second step: binary insertion of the elements from start on
RECURSIVE binarysort(_, _)
binarysort(seq, start) ==
    IF start > Len(seq) THEN seq
    ELSE Only({ binarysort(SubSeq(seq, 1, l) \o <<seq[start]>>
                           \o SubSeq(seq, l + 1, start - 1)
                           \o SubSeq(seq, start + 1, Len(seq)), start + 1) :
                l \in {bisect(seq, seq[start], 0, start - 1)} })

\* sorted() of a short list of floats, as the list sort of the interpreter
\* does it with < only: ascending when no NaN is in the list, and otherwise
\* dependent on where the NaN stood
sorted_floats(seq) ==
    IF Len(seq) < 2 THEN seq
    ELSE Only({ binarysort(
                   IF float_less(seq[2], seq[1])
                   THEN [i \in DOMAIN seq |-> IF i <= m THEN seq[m + 1 - i] ELSE seq[i]]
                   ELSE seq, m + 1) :
                m \in {count_run(seq)} })

\* sorted(df[symbol].unique())
LevelsOf(col) == sorted_floats(unique(col))

\* the mean with 0 for a set of rows that has no response
MeanWhereZeroFilled(ycol, rows) ==
    LET idx == Sorted(rows)
        y == NotNaN(ycol, idx)
    IN  IF Len(y) > 0 THEN Mean(y) ELSE QInt(0)

\* mean of the response over the given rows, NaN responses
\* removed; None when nothing is left
MeanWhere(ycol, rows) ==
    LET idx == Sorted(rows)
        y == NotNaN(ycol, idx)
    IN  IF Len(y) > 0 THEN Mean(y) ELSE QNone

NotNone(seq) == Pick(seq, Sorted({i \in DOMAIN seq : seq[i].t # "none"}))

\* the main effect as the mean at the last level minus the mean at the first
main_effect_signed(svc, r, j) ==
    LET xcol == Column(svc.df_design, j)
        ycol == Column(svc.df_responses, r)
        levels == LevelsOf(xcol)
        level_means ==
            [l \in DOMAIN levels |->
                MeanWhere(ycol, {i \in DOMAIN ycol :
                                    levels[l].t = "num" /\ xcol[i] = levels[l]})]
        valid_means == NotNone(level_means)
    IN  IF Len(levels) < 2 \/ Len(valid_means) < 2
        THEN [emitted |-> FALSE, effect |-> QNone, levels |-> levels,
              means |-> level_means]
        ELSE [emitted |-> TRUE,
              effect |-> QSub(valid_means[Len(valid_means)], valid_means[1]),
              levels |-> levels,
              means |-> level_means]

\* the main-effect entry of factor j (emitted tells whether there is one)
main_effect(svc, r, j) ==
    LET xcol == Column(svc.df_design, j)
        ycol == Column(svc.df_responses, r)
        levels == LevelsOf(xcol)
        level_means ==
            [l \in DOMAIN levels |->
                MeanWhere(ycol, {i \in DOMAIN ycol :
                                    levels[l].t = "num" /\ xcol[i] = levels[l]})]
        valid_means == NotNone(level_means)
    IN  IF Len(levels) < 2 \/ Len(valid_means) < 2
        THEN [emitted |-> FALSE, effect |-> QNone, levels |-> levels,
              means |-> level_means]
        ELSE [emitted |-> TRUE,
              effect |-> QSub(QMax(valid_means), QMin(valid_means)),
              levels |-> levels,
              means |-> level_means]

\* the interaction entry of the factor pair (j1, j2)
interaction_effect(svc, r, j1, j2) ==
    LET x1 == Column(svc.df_design, j1)
        x2 == Column(svc.df_design, j2)
        ycol == Column(svc.df_responses, r)
        levels_f1 == LevelsOf(x1)
        levels_f2 == LevelsOf(x2)
        cells == {<<a, b>> \in (DOMAIN levels_f1) \X (DOMAIN levels_f2) :
                    MeanWhere(ycol, {i \in DOMAIN ycol :
                        /\ levels_f1[a].t = "num" /\ x1[i] = levels_f1[a]
                        /\ levels_f2[b].t = "num" /\ x2[i] = levels_f2[b]}).t # "none"}
        cell_means ==
            [c \in cells |->
                MeanWhere(ycol, {i \in DOMAIN ycol :
                                    x1[i] = levels_f1[c[1]] /\ x2[i] = levels_f2[c[2]]})]
        order == Sorted({(c[1] - 1) * Len(levels_f2) + c[2] : c \in cells})
        cell_values ==
            [i \in DOMAIN order |->
                cell_means[<<((order[i] - 1) \div Len(levels_f2)) + 1,
                             ((order[i] - 1) % Len(levels_f2)) + 1>>]]
    IN  IF cells = {}
        THEN [emitted |-> FALSE, factors |-> <<j1, j2>>, effect |-> QNone,
              cell_means |-> cell_means]
        ELSE [emitted |-> TRUE, factors |-> <<j1, j2>>,
              effect |-> QSub(QMax(cell_values), QMin(cell_values)),
              cell_means |-> cell_means]

\* _compute_effects
compute_effects(svc, r) ==
    LET k == Len(svc.factors)
    IN  [main_effects |->
            [j \in {j \in 1..k : main_effect(svc, r, j).emitted} |->
                main_effect(svc, r, j)],
         interactions |->
            [pr \in {pr \in (1..k) \X (1..k) :
                        pr[1] < pr[2] /\ interaction_effect(svc, r, pr[1], pr[2]).emitted} |->
                interaction_effect(svc, r, pr[1], pr[2])]]

----------------------------------------------------------------------------
(* The Pareto part of _prepare_plots_data.                                 *)

\* the entries in dict order: the emitted main effects by factor, then the
\* emitted interactions by pair; term holds the factor indices of the label
all_effects(svc, effects) ==
    LET k == Len(svc.factors)
        mains == Sorted(DOMAIN effects.main_effects)
        pair_index == {(pr[1] - 1) * k + pr[2] : pr \in DOMAIN effects.interactions}
        pairs == Sorted(pair_index)
    IN  [i \in DOMAIN mains |->
            [term |-> <<mains[i]>>,
             effect |-> QAbs(effects.main_effects[mains[i]].effect),
             is_interaction |-> FALSE]]
        \o [i \in DOMAIN pairs |->
              Only({ [term |-> pr,
                      effect |-> QAbs(effects.interactions[pr].effect),
                      is_interaction |-> TRUE] :
                     pr \in {<<((pairs[i] - 1) \div k) + 1, ((pairs[i] - 1) % k) + 1>>} })]

\* the entries without entry i
without_entry(seq, i) == SubSeq(seq, 1, i - 1) \o SubSeq(seq, i + 1, Len(seq))

\* sorting by effect, smallest first
RECURSIVE sort_by_effect_ascending(_)
sort_by_effect_ascending(seq) ==
    IF seq = <<>> THEN <<>>
    ELSE Only({ <<seq[first]>> \o sort_by_effect_ascending(without_entry(seq, first)) :
                first \in {CHOOSE i \in DOMAIN seq :
                             /\ \A j \in DOMAIN seq : ~QLess(seq[j].effect, seq[i].effect)
                             /\ \A j \in 1..(i - 1) : QLess(seq[i].effect, seq[j].effect)} })

\* list.sort(key=effect, reverse=True): largest first, equal entries in
\* their original order
RECURSIVE sort_by_effect(_)
sort_by_effect(seq) ==
    IF seq = <<>> THEN <<>>
    ELSE Only({ <<seq[first]>> \o sort_by_effect(without_entry(seq, first)) :
                first \in {CHOOSE i \in DOMAIN seq :
                             /\ \A j \in DOMAIN seq : ~QLess(seq[i].effect, seq[j].effect)
                             /\ \A j \in 1..(i - 1) : QLess(seq[j].effect, seq[i].effect)} })

\* the running sums of the values
RECURSIVE cumulative_sums(_, _)
cumulative_sums(values, start) ==
    IF values = <<>> THEN <<>>
    ELSE Only({ <<next>> \o cumulative_sums(Tail(values), next) :
                next \in {QAdd(start, values[1])} })

pareto_data(svc, effects) ==
    Only({ Only({ [labels |-> [i \in DOMAIN sorted |-> sorted[i].term],
                   values |-> values,
                   cumulative |->
                     [i \in DOMAIN values |->
                        IF QLess(QInt(0), total_effect)
                        THEN QMul(QDiv(sums[i], total_effect), QInt(100))
                        ELSE QInt(0)]] :
                  values \in {[i \in DOMAIN sorted |-> sorted[i].effect] \o <<>>},
                  total_effect \in {QSum([i \in DOMAIN sorted |-> sorted[i].effect])},
                  sums \in {cumulative_sums([i \in DOMAIN sorted |-> sorted[i].effect],
                                            QInt(0))} }) :
           sorted \in {sort_by_effect(all_effects(svc, effects))} })

----------------------------------------------------------------------------
(* Text.  A str is a sequence of one-character strings.                    *)

\* str.replace(old, new) for a non-empty old
RECURSIVE str_replace(_, _, _)
str_replace(s, old, new) ==
    IF Len(s) < Len(old) THEN s
    ELSE IF SubSeq(s, 1, Len(old)) = old
    THEN new \o str_replace(SubSeq(s, Len(old) + 1, Len(s)), old, new)
    ELSE <<s[1]>> \o str_replace(Tail(s), old, new)

\* sep.join(parts)
RECURSIVE str_join(_, _)
str_join(sep, parts) ==
    IF parts = <<>> THEN <<>>
    ELSE IF Len(parts) = 1 THEN parts[1]
    ELSE parts[1] \o sep \o str_join(sep, Tail(parts))

patsy_reserved == {<<"C">>, <<"I">>, <<"Q">>}

\* the column alias used in formulas
safe_symbol(symbol) ==
    IF symbol \in patsy_reserved THEN <<"_">> \o symbol \o <<"_">> ELSE symbol

\* C(Q('<alias>')): the factor as a categorical term
categorical_term(f) == <<"C", "(", "Q", "(", "'">> \o safe_symbol(f.symbol) \o <<"'", ")", ")">>

\* "<name> (<symbol>)"
full_name(f) == f.name \o <<" ", "(">> \o f.symbol \o <<")">>

\* the source label of an ANOVA row, from the term name statsmodels reports
RECURSIVE replace_symbols(_, _)
replace_symbols(display_source, factors) ==
    IF factors = <<>> THEN display_source
    ELSE replace_symbols(
             str_replace(display_source, factors[1].symbol, full_name(factors[1])),
             Tail(factors))

display_source(source, factors) ==
    LET clean_source == str_replace(str_replace(source, <<"C", "(">>, <<>>), <<")">>, <<>>)
    IN  replace_symbols(clean_source, factors)

\* combinations(range(lo, n + 1), size) of itertools, in its order
RECURSIVE combinations(_, _, _)
combinations(lo, n, size) ==
    IF size = 0 THEN << <<>> >>
    ELSE IF lo > n THEN <<>>
    ELSE LET with == combinations(lo + 1, n, size - 1)
         IN  [i \in DOMAIN with |-> <<lo>> \o with[i]]
             \o combinations(lo + 1, n, size)

----------------------------------------------------------------------------
(* _compute_design_matrix_table.  An entry of a row is a number, a text    *)
(* (a categorical label) or None.  Stored factor values are numbers or     *)
(* absent.                                                                 *)

QStr(v) == [t |-> "str", n |-> v, d |-> 1]

IsNumber(e) == e.t \in {"num", "nan"}

\* the distinct numeric values of factor j over the runs
unique_values(runs, factor) ==
    {Get(runs[i].factor_values, factor.id).v :
        i \in {i \in DOMAIN runs : Get(runs[i].factor_values, factor.id).t = "num"}}

\* the flag with "at least two values" in place of "exactly two"
two_level_factorial_at_least_two(runs, factors) ==
    \A j \in DOMAIN factors :
        /\ factors[j].data_type = "quantitative"
        /\ Cardinality(unique_values(runs, factors[j])) >= 2

\* the loop of lines 794-815 leaves the flag true iff no factor breaks out
two_level_factorial(runs, factors) ==
    \A j \in DOMAIN factors :
        /\ factors[j].data_type = "quantitative"
        /\ Cardinality(unique_values(runs, factors[j])) = 2

\* factor_level_mapping: per factor the two values, ascending (-1, then +1)
factor_level_mapping(runs, factors) ==
    [j \in DOMAIN factors |-> Sorted(unique_values(runs, factors[j]))]

\* factor_level_mapping[factor.id].get(real_value, 0)
coded_level(sorted_values, real_value) ==
    IF real_value = QInt(sorted_values[1]) THEN QInt(-1)
    ELSE IF real_value = QInt(sorted_values[2]) THEN QInt(1)
    ELSE QInt(0)

\* the interaction columns stopping at the order asked for first
interaction_combinations_one_order(order, k) ==
    IF order > k THEN <<>> ELSE combinations(1, k, order)

\* the interaction columns: all index combinations of every order 2..k
RECURSIVE interaction_combinations(_, _)
interaction_combinations(order, k) ==
    IF order > k THEN <<>>
    ELSE combinations(1, k, order) \o interaction_combinations(order + 1, k)

design_headers(factors, flag, mapping, combos) ==
    << [symbol |-> <<"I">>, type |-> "intercept", factors |-> <<>>,
        level_mapping |-> <<>>] >>
    \o [j \in DOMAIN factors |->
          [symbol |-> factors[j].symbol, type |-> "factor", factors |-> <<j>>,
           level_mapping |-> IF flag THEN mapping[j] ELSE <<>>]]
    \o [c \in DOMAIN combos |->
          [symbol |-> str_join(<<>>, [m \in DOMAIN combos[c] |->
                                        factors[combos[c][m]].symbol]),
           type |-> "interaction", factors |-> combos[c],
           level_mapping |-> <<>>]]
    \o << [symbol |-> <<"Y">>, type |-> "response", factors |-> <<>>,
           level_mapping |-> <<>>] >>

\* product of the entries of the member factors; None when the first
\* non-numeric member is met
RECURSIVE interaction_product(_, _)
interaction_product(entries, members) ==
    IF members = <<>> THEN QInt(1)
    ELSE IF ~IsNumber(entries[members[1]]) THEN QNone
    ELSE Only({ IF rest.t = "none" THEN QNone ELSE QMul(entries[members[1]], rest) :
                rest \in {interaction_product(entries, Tail(members))} })

\* the entry of factor j in the value row
factor_entry(run, factor) ==
    Only({ IF factor.data_type = "categorical" THEN QStr(factor_value.v)
           ELSE IF factor_value.t = "num" THEN QInt(factor_value.v)
           ELSE IF factor_value.t = "nan" THEN QNaN
           ELSE QInt(0) :
           factor_value \in {Get(run.factor_values, factor.id)} })

\* float(response_value) if response_value is not None else None
response_entry(run, response_variable) ==
    Only({ IF response_value.t = "null" THEN QNone
           ELSE IF response_value.t = "num" THEN QInt(response_value.v)
           ELSE QNaN :
           response_value \in {Get(run.response_values, response_variable.id)} })

design_row(run, factors, response_variable, flag, mapping, combos) ==
    Only({ [run_order |-> run.run_order,
            standard_order |-> run.standard_order,
            values |-> <<QInt(1)>> \o factor_values
                       \o [c \in DOMAIN combos |->
                             interaction_product(factor_values, combos[c])]
                       \o <<y>>,
            values_coded |-> <<QInt(1)>> \o factor_coded
                       \o [c \in DOMAIN combos |->
                             IF interaction_product(factor_values, combos[c]).t = "none"
                             THEN QNone
                             ELSE interaction_product(factor_coded, combos[c])]
                       \o <<y>>] :
           factor_values \in
               {[j \in DOMAIN factors |-> factor_entry(run, factors[j])] \o <<>>},
           factor_coded \in
               {[j \in DOMAIN factors |->
                   IF factors[j].data_type = "categorical" \/ ~flag
                   THEN factor_entry(run, factors[j])
                   ELSE coded_level(mapping[j], factor_entry(run, factors[j]))] \o <<>>},
           y \in {response_entry(run, response_variable)} })

\* the total of column c taken over the value rows, not the coded rows
column_total_of_real_values(headers, run_rows, c) ==
    IF headers[c].type = "response"
    THEN QSum(NotNone([i \in DOMAIN run_rows |-> run_rows[i].values[c]]))
    ELSE QSum([i \in DOMAIN run_rows |->
                 IF /\ IsNumber(run_rows[i].values[c])
                    /\ run_rows[i].values[Len(headers)].t # "none"
                 THEN QMul(run_rows[i].values[c],
                           run_rows[i].values[Len(headers)])
                 ELSE QInt(0)])

\* the total of column c
column_total(headers, run_rows, c) ==
    IF headers[c].type = "response"
    THEN QSum(NotNone([i \in DOMAIN run_rows |-> run_rows[i].values[c]]))
    ELSE QSum([i \in DOMAIN run_rows |->
                 IF /\ IsNumber(run_rows[i].values_coded[c])
                    /\ run_rows[i].values[Len(headers)].t # "none"
                 THEN QMul(run_rows[i].values_coded[c],
                           run_rows[i].values[Len(headers)])
                 ELSE QInt(0)])

\* effect / 2, not squared, times the number of runs
effect_sum_sq_unsquared(effect, n_runs) ==
    QMul(QInt(n_runs), QAbs(QDiv(effect, QInt(2))))

\* effect / 2, squared, times the number of runs
effect_sum_sq(effect, n_runs) ==
    QMul(QInt(n_runs), QMul(QDiv(effect, QInt(2)), QDiv(effect, QInt(2))))

\* the total divided by the number of runs, not by half of it
column_effect_per_run(total, n_runs) == QDiv(total, QInt(n_runs))

\* effect = total / (n_runs / 2)
column_effect(total, n_runs) == QDiv(total, Q(n_runs, 2))

\* the share of SST as a fraction, not as a percentage
fraction_contribution(effect, n_runs, sst) ==
    QDiv(effect_sum_sq(effect, n_runs), sst)

\* contribution = (n_runs * (q ** 2)) / sst * 100
percent_contribution(effect, n_runs, sst) ==
    QMul(QDiv(effect_sum_sq(effect, n_runs), sst), QInt(100))

\* totals, means, effects and contributions of the table
design_matrix_summary(headers, run_rows, flag) ==
    Only({
      Only({
        Only({ [headers |-> headers,
                runs |-> run_rows,
                totals |-> totals,
                means |-> [c \in DOMAIN headers |->
                             IF Len(run_rows) > 0
                             THEN QDiv(totals[c], QInt(Len(run_rows))) ELSE QNone],
                effects |-> effects,
                contributions |->
                    [c \in DOMAIN headers |->
                        IF headers[c].type \in {"factor", "interaction"}
                           /\ effects[c].t # "none" /\ QLess(QInt(0), sst)
                        THEN percent_contribution(effects[c], Len(run_rows), sst)
                        ELSE QNone],
                n_runs |-> Len(run_rows),
                is_two_level_factorial |-> flag] :
               sst \in {QSum([c \in DOMAIN headers |->
                                IF headers[c].type \in {"factor", "interaction"}
                                   /\ effects[c].t # "none"
                                THEN effect_sum_sq(effects[c], Len(run_rows))
                                ELSE QInt(0)])} }) :
        effects \in {[c \in DOMAIN headers |->
                        IF headers[c].type \in {"factor", "interaction"}
                           /\ Len(run_rows) > 0
                        THEN column_effect(totals[c], Len(run_rows))
                        ELSE QNone] \o <<>>} }) :
      totals \in {[c \in DOMAIN headers |-> column_total(headers, run_rows, c)] \o <<>>} })

\* the table over the included runs of the stored experiment
design_matrix_of(runs, factors, response_variable) ==
    Only({ Only({ design_matrix_summary(headers, run_rows, flag) :
                  run_rows \in {[i \in DOMAIN runs |->
                                   design_row(runs[i], factors, response_variable,
                                              flag, mapping, combos)] \o <<>>} }) :
           flag \in {two_level_factorial(runs, factors)},
           mapping \in {factor_level_mapping(runs, factors)},
           combos \in {IF Len(factors) > 1
                       THEN interaction_combinations(2, Len(factors)) ELSE <<>>},
           headers \in {design_headers(factors,
                            two_level_factorial(runs, factors),
                            factor_level_mapping(runs, factors),
                            IF Len(factors) > 1
                            THEN interaction_combinations(2, Len(factors)) ELSE <<>>)} })

compute_design_matrix_table(exp, svc, r) ==
    Only({ design_matrix_of(runs, svc.factors, svc.responses[r]) :
           runs \in {included_runs(exp)} })

----------------------------------------------------------------------------
(* _compute_anova.  The fit (ols, anova_lm) is the library's.  For an      *)
(* equally replicated two-level full factorial with residual degrees of    *)
(* freedom the Type II sums of squares are the squared contrasts over n;   *)
(* for any other data the numbers are the library's (QLib), and when the   *)
(* residual sum of squares is zero rounding decides between the value      *)
(* and NaN.                                                                *)

QLib == [t |-> "lib", n |-> 0, d |-> 1]

\* the terms with the interactions of every order, not only the pairs
anova_terms_of_every_order(factors) ==
    [j \in 1..Len(factors) |-> <<j>>]
    \o (IF Len(factors) > 1 THEN interaction_combinations(2, Len(factors)) ELSE <<>>)
    \o << <<>> >>

\* the source names anova_lm reports: main terms, pairs, Residual
anova_terms(factors) ==
    LET k == Len(factors)
        pairs == IF k > 1 THEN combinations(1, k, 2) ELSE <<>>
    IN  [j \in 1..k |-> <<j>>] \o pairs \o << <<>> >>

term_source(term, factors) ==
    IF term = <<>> THEN <<"R", "e", "s", "i", "d", "u", "a", "l">>
    ELSE str_join(<<":">>, [m \in DOMAIN term |-> categorical_term(factors[term[m]])])

\* -1 at the lower level of every member, the product of the signs otherwise
RECURSIVE contrast_sign(_, _, _)
contrast_sign(svc, i, members) ==
    IF members = <<>> THEN 1
    ELSE LET xcol == Column(svc.df_design, members[1])
             low == LevelsOf(xcol)[1]
         IN  (IF xcol[i] = low THEN -1 ELSE 1) * contrast_sign(svc, i, Tail(members))

contrast(svc, r, members) ==
    LET ycol == Column(svc.df_responses, r)
    IN  QSum([i \in DOMAIN ycol |->
                QMul(QInt(contrast_sign(svc, i, members)), QOfCell(ycol[i]))])

\* every factor on two levels, nothing missing, every contrast column balanced
balanced_two_level(svc, r) ==
    LET k == Len(svc.factors)
        n == svc.num_runs
    IN  /\ \A j \in 1..k :
              /\ \A i \in 1..n : svc.df_design.rows[i].x[j].t = "num"
              /\ Len(LevelsOf(Column(svc.df_design, j))) = 2
        /\ \A i \in 1..n : svc.df_responses.rows[i].x[r].t = "num"
        /\ \A size \in 1..k :
              \A c \in DOMAIN combinations(1, k, size) :
                  LET members == combinations(1, k, size)[c]
                  IN  QSum([i \in 1..n |-> QInt(contrast_sign(svc, i, members))]) = QInt(0)

\* every factor value and the response of every row is a number, and every
\* factor shows at least two levels
fit_is_plain(svc, r) ==
    /\ \A i \in 1..svc.num_runs :
          /\ svc.df_responses.rows[i].x[r].t = "num"
          /\ \A j \in DOMAIN svc.factors : svc.df_design.rows[i].x[j].t = "num"
    /\ \A j \in DOMAIN svc.factors : Len(LevelsOf(Column(svc.df_design, j))) >= 2

\* the number of columns of a term: the product of (levels - 1) of its members
RECURSIVE term_columns(_, _)
term_columns(svc, members) ==
    IF members = <<>> THEN 1
    ELSE (Len(LevelsOf(Column(svc.df_design, members[1]))) - 1)
         * term_columns(svc, Tail(members))

\* the distinct factor-level combinations met in the rows
observed_cells(svc) == {svc.df_design.rows[i].x : i \in 1..svc.num_runs}

\* the squared deviations of the responses from their overall mean
within_cell_ss_of_grand_mean(svc, r) ==
    LET ycol == Column(svc.df_responses, r)
    IN  QSum([i \in DOMAIN ycol |->
                Only({ QMul(dev, dev) :
                       dev \in {QSub(QOfCell(ycol[i]),
                                     MeanWhere(ycol, DOMAIN ycol))} })])

\* the residual sum of squares of a fit that reaches every cell mean: the
\* squared deviations of the responses from the mean of their cell
within_cell_ss(svc, r) ==
    LET ycol == Column(svc.df_responses, r)
        cell_mean(i) == MeanWhere(ycol, {a \in DOMAIN ycol :
                            svc.df_design.rows[a].x = svc.df_design.rows[i].x})
    IN  QSum([i \in DOMAIN ycol |->
                Only({ QMul(dev, dev) :
                       dev \in {QSub(QOfCell(ycol[i]), cell_mean(i))} })])

\* model.df_resid and model.ssr.  With one or two factors the terms reach every
\* cell mean, so the rank of the design is the number of observed cells; with
\* more factors the numbers are known for the equally replicated full design.
residual_of(svc, r, exact, n_terms, ss_residual) ==
    IF ~fit_is_plain(svc, r) THEN [df |-> QLib, ssr |-> QLib]
    ELSE IF Len(svc.factors) <= 2
    THEN [df |-> QInt(svc.num_runs - Cardinality(observed_cells(svc))),
          ssr |-> within_cell_ss(svc, r)]
    ELSE IF exact
    THEN [df |-> QInt(svc.num_runs - 1 - n_terms), ssr |-> ss_residual]
    ELSE [df |-> QLib, ssr |-> QLib]

\* model.rsquared = 1 - ssr / centered_tss; 0/0 is NaN
rsquared(ssr, ss_total) ==
    IF ssr.t # "num" \/ ss_total.t # "num" THEN QLib
    ELSE IF ss_total = QInt(0) THEN QNaN
    ELSE QSub(QInt(1), QDiv(ssr, ss_total))

\* mean_sq of a row whatever its df, the sum of squares itself when df is 0
mean_sq_without_df_test(df_val, sum_sq_val) ==
    IF df_val.t = "none" \/ sum_sq_val.t = "none" THEN QNone
    ELSE IF df_val.t = "lib" \/ sum_sq_val.t = "lib" THEN QLib
    ELSE IF df_val = QInt(0) THEN sum_sq_val
    ELSE QDiv(sum_sq_val, df_val)

\* mean_sq_val: sum_sq / df when both are there and df > 0
mean_sq(df_val, sum_sq_val) ==
    IF df_val.t = "none" \/ sum_sq_val.t = "none" THEN QNone
    ELSE IF df_val.t = "num" /\ ~QLess(QInt(0), df_val) THEN QNone
    ELSE IF df_val.t = "lib" \/ sum_sq_val.t = "lib" THEN QLib
    ELSE QDiv(sum_sq_val, df_val)

\* row['F'] of the library's table: NaN in the Residual row and when the
\* fit gave NaN, a number the model does not compute otherwise
f_value(l, term) ==
    IF term = <<>> \/ l.fit = "nan" THEN QNone ELSE QLib

\* row['PR(>F)'] of the library's table: NaN in the Residual row and when
\* the fit gave NaN; otherwise a probability below, at or above 0.05
p_value(l, term) ==
    IF term = <<>> \/ l.fit = "nan" THEN QNone
    ELSE IF l.p = "low" THEN Q(1, 100)
    ELSE IF l.p = "edge" THEN Q(5, 100)
    ELSE Q(1, 2)

\* significance with p <= 0.05 in place of p < 0.05
is_significant_at_most(p_val) ==
    p_val.t = "num" /\ ~QLess(Q(5, 100), p_val)

\* p_val < 0.05 if p_val is not None else False
is_significant(p_val) ==
    p_val.t = "num" /\ QLess(p_val, Q(5, 100))

\* sum(row['df'] for row in anova_results if row['df'] is not None)
sum_of_df(rows) ==
    IF \E t \in DOMAIN rows : rows[t].df.t = "lib" THEN QLib
    ELSE QSum(NotNone([t \in DOMAIN rows |-> rows[t].df]))

anova_table(svc, r, l, terms, exact, ss_total, ss, residual) ==
    Only({ Only({ anova_results \o
                  << [source |-> <<"T", "o", "t", "a", "l">>, term |-> <<>>,
                      df |-> sum_of_df(anova_results),
                      sum_sq |-> IF rounds_to_nan THEN QInt(0)
                                 ELSE IF ~exact THEN QLib
                                 ELSE ss_total,
                      mean_sq |-> QNone, f_value |-> QNone, p_value |-> QNone,
                      is_significant |-> FALSE] >> :
                  anova_results \in
                    {[t \in DOMAIN terms |->
                        Only({ [source |-> display_source(term_source(terms[t], svc.factors),
                                                          svc.factors),
                                term |-> terms[t],
                                df |-> df_val,
                                sum_sq |-> sum_sq_val,
                                mean_sq |-> mean_sq(df_val, sum_sq_val),
                                f_value |-> f_value(l, terms[t]),
                                p_value |-> p_value(l, terms[t]),
                                is_significant |-> is_significant(p_value(l, terms[t]))] :
                               df_val \in {IF terms[t] = <<>> THEN residual.df
                                           ELSE IF fit_is_plain(svc, r)
                                           THEN QInt(term_columns(svc, terms[t]))
                                           ELSE QLib},
                               sum_sq_val \in {IF rounds_to_nan THEN QNone
                                               ELSE IF ~exact THEN QLib
                                               ELSE IF terms[t] = <<>> THEN ss_residual
                                               ELSE ss[t]} })] \o <<>>} }) :
           ss_residual \in {QSub(ss_total, QSum(ss))},
           rounds_to_nan \in
             {l.fit = "nan" /\ (~exact \/ QSub(ss_total, QSum(ss)) = QInt(0))} })

compute_anova(svc, r, l) ==
    IF l.raises = "ImportError"
    THEN [exc |-> Exc("ImportError", "anova", "", 0, 0)]
    ELSE IF l.raises # "" \/ \E j \in DOMAIN svc.factors : j \notin svc.df_design.columns
    THEN [exc |-> Exc("PatsyError", "anova", "", 0, 0)]
    ELSE
    Only({ Only({ [exc |-> NoExc,
                   table |-> anova_table(svc, r, l, terms, exact, ss_total, ss, residual),
                   r_squared |-> rsquared(residual.ssr, ss_total)] :
                  residual \in {residual_of(svc, r, exact, Len(terms) - 1,
                                            QSub(ss_total, QSum(ss)))} }) :
           terms \in {anova_terms(svc.factors)},
           exact \in {balanced_two_level(svc, r)
                      /\ svc.num_runs - Len(anova_terms(svc.factors)) > 0},
           ss_total \in
             {Only({ QSub(QSum([i \in DOMAIN y |-> QMul(y[i], y[i])]),
                          QDiv(QMul(QSum(y), QSum(y)), QInt(svc.num_runs))) :
                     y \in {[i \in 1..svc.num_runs |->
                               QOfCell(svc.df_responses.rows[i].x[r])] \o <<>>} })},
           ss \in {[t \in 1..(Len(anova_terms(svc.factors)) - 1) |->
                      Only({ QDiv(QMul(c, c), QInt(svc.num_runs)) :
                             c \in {contrast(svc, r, anova_terms(svc.factors)[t])} })]
                   \o <<>>} })

----------------------------------------------------------------------------
(* compute_full_analysis on the stored data, and the view.                 *)

\* the float branch of clean_nan_values on a number of the results
clean_number(q) == IF q.t = "nan" THEN QNone ELSE q

clean_numbers(seq) == [i \in DOMAIN seq |-> clean_number(seq[i])]

\* clean_nan_values over the sections
clean_results(results) ==
    [summary |-> [f \in DOMAIN results.summary |->
                    IF f \in {"exc", "n"} THEN results.summary[f]
                    ELSE clean_number(results.summary[f])],
     anova |-> [table |-> [i \in DOMAIN results.anova.table |->
                             [results.anova.table[i] EXCEPT
                                 !.df = clean_number(@),
                                 !.sum_sq = clean_number(@),
                                 !.mean_sq = clean_number(@),
                                 !.f_value = clean_number(@),
                                 !.p_value = clean_number(@)]],
                r_squared |-> clean_number(results.anova.r_squared)],
     effects |->
        [main_effects |->
            [j \in DOMAIN results.effects.main_effects |->
                [results.effects.main_effects[j] EXCEPT
                    !.effect = clean_number(@), !.means = clean_numbers(@)]],
         interactions |->
            [pr \in DOMAIN results.effects.interactions |->
                [results.effects.interactions[pr] EXCEPT
                    !.effect = clean_number(@),
                    !.cell_means = [c \in DOMAIN @ |-> clean_number(@[c])]]]],
     plots_data |->
        [pareto |-> [results.plots_data.pareto EXCEPT
                        !.values = clean_numbers(@),
                        !.cumulative = clean_numbers(@)]],
     design_matrix |->
        [results.design_matrix EXCEPT
            !.runs = [i \in DOMAIN @ |->
                        [@[i] EXCEPT !.values = clean_numbers(@),
                                     !.values_coded = clean_numbers(@)]],
            !.totals = clean_numbers(@),
            !.means = clean_numbers(@),
            !.effects = clean_numbers(@),
            !.contributions = clean_numbers(@)]]

NoResults == [summary |-> <<>>, anova |-> <<>>, effects |-> <<>>, plots_data |-> <<>>,
              design_matrix |-> <<>>]

\* the selected response column: sel = 0 is no name (the first response),
\* sel = j the name of response j, any other sel a name no response has
selected_response(svc, sel) ==
    IF sel = 0 THEN 1 ELSE IF sel \in DOMAIN svc.responses THEN sel ELSE 0

\* what the request ends with when exc is raised
failed(exc, built) == [exc |-> exc, service |-> built, results |-> NoResults]

\* compute_full_analysis(name) of a service built without error
sections_of(exp, svc, sel, l) ==
    LET r == selected_response(svc, sel)
    IN  IF r \notin svc.df_responses.columns
        THEN failed(Exc("ValueError", "request", MsgNotFound, 0, 0), svc)
        ELSE Only({ IF summary.exc # NoExc THEN failed(summary.exc, svc)
                    ELSE Only({ IF anova.exc # NoExc THEN failed(anova.exc, svc)
                                ELSE Only({ [exc |-> NoExc,
                                             service |-> svc,
                                             results |-> clean_results(results)] :
                                            results \in
                                              {[summary |-> summary,
                                                anova |-> [table |-> anova.table,
                                                           r_squared |-> anova.r_squared],
                                                effects |-> compute_effects(svc, r),
                                                plots_data |->
                                                  [pareto |-> pareto_data(svc,
                                                      compute_effects(svc, r))],
                                                design_matrix |->
                                                  compute_design_matrix_table(exp, svc, r)]} }) :
                                anova \in {compute_anova(svc, r, l)} }) :
                    summary \in {compute_summary(svc, r)} })

\* ExperimentAnalysisService(experiment).compute_full_analysis(name):
\* the exception raised or the results, and the service as constructed
full_analysis(exp, sel, l) ==
    Only({ IF invalid # NoExc THEN failed(invalid, NoService)
           ELSE Only({ IF prepared.exc # NoExc THEN failed(prepared.exc, NoService)
                       ELSE sections_of(exp, prepared.service, sel, l) :
                       prepared \in {prepare_dataframes(exp)} }) :
           invalid \in {validate_data(exp)} })

HTTP_200_OK == 200
HTTP_400_BAD_REQUEST == 400
HTTP_500_INTERNAL_SERVER_ERROR == 500

\* the except clauses of the view, in order
status_of(exc) ==
    IF exc = NoExc THEN HTTP_200_OK
    ELSE IF exc.cls = "ValueError" THEN HTTP_400_BAD_REQUEST
    ELSE IF exc.cls = "ImportError" THEN HTTP_500_INTERNAL_SERVER_ERROR
    ELSE HTTP_500_INTERNAL_SERVER_ERROR

Response(exc, results) == [status |-> status_of(exc), exc |-> exc, results |-> results]

----------------------------------------------------------------------------
(* The requests that change the stored data, and the analysis request.     *)

KnownSymbols == << <<"A">>, <<"B">>, <<"C">>, <<"D">> >>
KnownFactorNames == << <<"T", "e", "m", "p">>, <<"T", "i", "m", "e">>,
                       <<"C", "o", "n", "c">>, <<"F", "l", "o", "w">> >>

\* FactorViewSet.perform_create: refused once runs exist
create_factor(symbol, name, data_type) ==
    /\ pc = "edit"
    /\ experiment.runs = <<>>
    /\ \A j \in DOMAIN experiment.factors : experiment.factors[j].symbol # symbol
    /\ experiment' = [experiment EXCEPT !.factors =
                        Append(@, Factor(Len(@) + 1, symbol, name, data_type))]
    /\ UNCHANGED <<pc, obj, cleaned, recleaned, lib, service, response>>

\* ResponseVariableViewSet.perform_create
create_response_variable ==
    /\ pc = "edit"
    /\ experiment' = [experiment EXCEPT !.response_variables =
                        Append(@, ResponseVariable(Len(@) + 1, Len(@) + 1))]
    /\ UNCHANGED <<pc, obj, cleaned, recleaned, lib, service, response>>

\* ExperimentRunViewSet.perform_create: both orders unique in the experiment
create_run(standard_order, run_order, is_excluded, factor_values, response_values) ==
    /\ pc = "edit"
    /\ \A i \in DOMAIN experiment.runs :
          /\ experiment.runs[i].standard_order # standard_order
          /\ experiment.runs[i].run_order # run_order
    /\ experiment' = [experiment EXCEPT !.runs =
                        Append(@, ExperimentRun(Len(@) + 1, standard_order, run_order,
                                                is_excluded, factor_values,
                                                response_values))]
    /\ UNCHANGED <<pc, obj, cleaned, recleaned, lib, service, response>>

\* ExperimentRunViewSet.toggle_exclude
toggle_exclude(i) ==
    /\ pc = "edit"
    /\ i \in DOMAIN experiment.runs
    /\ experiment' = [experiment EXCEPT !.runs[i].is_excluded = ~@]
    /\ UNCHANGED <<pc, obj, cleaned, recleaned, lib, service, response>>

\* ExperimentRunViewSet.update_responses
update_responses(i, response_values) ==
    /\ pc = "edit"
    /\ i \in DOMAIN experiment.runs
    /\ experiment' = [experiment EXCEPT !.runs[i].response_values = response_values]
    /\ UNCHANGED <<pc, obj, cleaned, recleaned, lib, service, response>>

\* the query parameter 'response': absent, the name of a response, or another name
Selections == {0, 1, -1}

\* the view with a write of the outcome into the experiment
experiment_analysis_saving ==
    /\ pc = "edit"
    /\ \E sel \in Selections :
       \E out \in {full_analysis(experiment, sel, lib)} :
              /\ service' = out.service
              /\ response' = Response(out.exc, out.results)
              /\ experiment' = [experiment EXCEPT !.runs =
                                  [i \in DOMAIN @ |->
                                      [@[i] EXCEPT !.is_excluded = out.exc # NoExc]]]
    /\ pc' = "done"
    /\ UNCHANGED <<obj, cleaned, recleaned, lib>>

\* ExperimentViewSet.experiment_analysis
experiment_analysis ==
    /\ pc = "edit"
    /\ \E sel \in Selections :
       \E out \in {full_analysis(experiment, sel, lib)} :
              /\ service' = out.service
              /\ response' = Response(out.exc, out.results)
    /\ pc' = "done"
    /\ UNCHANGED <<obj, cleaned, recleaned, lib, experiment>>

----------------------------------------------------------------------------
(* Scenario 3: an experiment is set up (factors, response variables, runs  *)
(* with some responses filled and some runs excluded) and analysed.        *)

MaxFactors == 2
MaxResponses == 2
MaxRuns == 4

\* the keys of response_values tried: none, the first response, both
\* responses, the first response and a key of no response
ResponseKeys == {{}, {1}, {1, 2}, {1, 9}}

InitValidate ==
    /\ pc = "edit"
    /\ obj = PyNone /\ cleaned = PyNone /\ recleaned = PyNone
    /\ lib = NoLib
    /\ experiment = NoExperiment
    /\ service = NoService
    /\ response = NoResponse

AddFactor ==
    /\ Len(experiment.factors) < MaxFactors
    /\ create_factor(KnownSymbols[Len(experiment.factors) + 1],
                     KnownFactorNames[Len(experiment.factors) + 1], "quantitative")

AddResponseVariable ==
    /\ Len(experiment.response_variables) < MaxResponses
    /\ create_response_variable

AddRun ==
    /\ Len(experiment.runs) < MaxRuns
    /\ \E keys \in ResponseKeys :
          create_run(Len(experiment.runs) + 1, Len(experiment.runs) + 1, FALSE,
                     [j \in DOMAIN experiment.factors |-> Num(1)],
                     [id \in keys |-> Num(1)])

AddExcludedRun ==
    /\ Len(experiment.runs) < MaxRuns
    /\ create_run(Len(experiment.runs) + 1, Len(experiment.runs) + 1, TRUE,
                  [j \in DOMAIN experiment.factors |-> Num(1)],
                  [id \in {1, 2} |-> Num(1)])

NextValidate ==
    \/ AddFactor
    \/ AddResponseVariable
    \/ AddRun
    \/ AddExcludedRun
    \/ experiment_analysis

SpecValidate == InitValidate /\ [][NextValidate]_vars

IncludedRuns == {i \in DOMAIN experiment.runs : ~experiment.runs[i].is_excluded}

CompleteRuns == {i \in IncludedRuns : is_complete(experiment, experiment.runs[i])}

ValidationError(msg) ==
    /\ response.exc.cls = "ValueError"
    /\ response.exc.origin = "validation"
    /\ response.exc.msg = msg

\* C1: constructing the service checks, over the non-excluded runs and in
\* this order, no runs, no factors, no response variables, zero complete
\* runs, fewer complete runs than 2^(number of factors); the error raised
\* carries the message of the first check that fails (the five messages are
\* pairwise distinct, the last reports required and actual counts), and no
\* validation error is raised exactly when no check fails.
C1_FirstFailingCheckReported ==
    /\ Cardinality(ValidationMessages) = 5
    /\ pc = "done" =>
          IF IncludedRuns = {} THEN ValidationError(MsgNoRuns)
          ELSE IF Len(experiment.factors) = 0 THEN ValidationError(MsgNoFactors)
          ELSE IF Len(experiment.response_variables) = 0
          THEN ValidationError(MsgNoResponses)
          ELSE IF CompleteRuns = {} THEN ValidationError(MsgNoComplete)
          ELSE IF Cardinality(CompleteRuns) < Pow2(Len(experiment.factors))
          THEN /\ ValidationError(MsgInsufficient)
               /\ response.exc.a = Pow2(Len(experiment.factors))
               /\ response.exc.b = Cardinality(CompleteRuns)
          ELSE response.exc.origin # "validation"

\* two factors and exactly 2^2 complete runs: accepted
C1_Witness ==
    /\ pc = "done"
    /\ Len(experiment.factors) = 2
    /\ Cardinality(CompleteRuns) = Pow2(2)
    /\ response.exc.origin # "validation"
    /\ response.status = HTTP_200_OK

\* C8: for an experiment with at least one response variable, a run is
\* complete if and only if its response_values has an entry keyed by the id
\* of every response variable of the experiment, whatever else it holds.
C8_CompleteIffEveryResponseKeyed ==
    \A i \in DOMAIN experiment.runs :
        Len(experiment.response_variables) > 0 =>
            (is_complete(experiment, experiment.runs[i])
                <=> \A j \in DOMAIN experiment.response_variables :
                        experiment.response_variables[j].id
                            \in DOMAIN experiment.runs[i].response_values)

----------------------------------------------------------------------------
(* Scenario 4: one factor, one response variable; runs are created in any  *)
(* order of standard_order (run_order is the creation order), carry their  *)
(* response or the text "nan", and are excluded and re-included; then the  *)
(* analysis is requested.  The libraries may fail.                         *)

MaxOrderRuns == 3

LibOutcomes ==
    {NoLib,
     [NoLib EXCEPT !.fit = "nan"],
     [NoLib EXCEPT !.raises = "PatsyError"],
     [NoLib EXCEPT !.raises = "ImportError"]}

OneFactorOneResponse ==
    [factors |-> << Factor(1, KnownSymbols[1], KnownFactorNames[1], "quantitative") >>,
     response_variables |-> << ResponseVariable(1, 1) >>,
     runs |-> <<>>]

InitRequest ==
    /\ pc = "edit"
    /\ obj = PyNone /\ cleaned = PyNone /\ recleaned = PyNone
    /\ lib \in LibOutcomes
    /\ experiment = OneFactorOneResponse
    /\ service = NoService
    /\ response = NoResponse

AddOrderedRun ==
    /\ Len(experiment.runs) < MaxOrderRuns
    /\ \E standard_order \in 1..MaxOrderRuns :
       \E y \in {Num(10 * standard_order), NaNText} :
          create_run(standard_order, Len(experiment.runs) + 1, FALSE,
                     [id \in {1} |-> Num(1 + (standard_order % 2))],
                     [id \in {1} |-> y])

ToggleExclude == \E i \in DOMAIN experiment.runs : toggle_exclude(i)

NextRequest ==
    \/ AddOrderedRun
    \/ ToggleExclude
    \/ experiment_analysis

SpecRequest == InitRequest /\ [][NextRequest]_vars

\* C5: constructing the service and computing the analysis, whether it
\* returns or raises, leaves the experiment, its factors, its response
\* variables and every run unchanged and stores nothing.
C5_AnalysisWritesNothing ==
    [][pc = "edit" /\ pc' = "done" => experiment' = experiment]_vars

\* an analysis has answered over stored runs, one of them excluded
C5_Witness ==
    /\ pc = "done"
    /\ response.status = HTTP_200_OK
    /\ Len(experiment.runs) = 3
    /\ Cardinality(IncludedRuns) = 2

\* C6: a failure while fitting a model or computing a section is reported
\* as a computation error, never with the outcome of a validation failure
\* (400 at the API).
C6_ComputationFailureIsNot400 ==
    pc = "done" /\ response.exc.origin \in {"summary", "anova"}
        => response.status = HTTP_500_INTERNAL_SERVER_ERROR

\* the stored experiment with its excluded runs deleted
WithoutExcludedRuns ==
    [experiment EXCEPT !.runs = SelectSeq(@, LAMBDA run : ~run.is_excluded)]

\* rows stand for exactly the non-excluded runs, ascending in standard_order
RowsAreIncludedRuns(rows, Order(_), RunOrder(_)) ==
    /\ Len(rows) = Cardinality(IncludedRuns)
    /\ \A a, b \in DOMAIN rows : a < b => Order(a) < Order(b)
    /\ \A a \in DOMAIN rows :
          \E i \in IncludedRuns :
              /\ experiment.runs[i].standard_order = Order(a)
              /\ experiment.runs[i].run_order = RunOrder(a)

\* C7: the rows of the design table, of the response table and of the sign
\* matrix's runs are exactly the runs that are not excluded, in ascending
\* standard_order whatever the creation order or run_order; an excluded run
\* contributes to nothing the analysis answers.
C7_OnlyIncludedRunsInStandardOrder ==
    /\ pc = "done" /\ service # NoService =>
          /\ RowsAreIncludedRuns(service.df_design.rows,
                LAMBDA a : service.df_design.rows[a].key.standard_order,
                LAMBDA a : service.df_design.rows[a].key.run_order)
          /\ Len(service.df_responses.rows) = Len(service.df_design.rows)
          /\ \A a \in DOMAIN service.df_responses.rows :
                service.df_responses.rows[a].key.run_order
                    = service.df_design.rows[a].key.run_order
          /\ service.num_runs = Cardinality(IncludedRuns)
    /\ pc = "done" /\ response.status = HTTP_200_OK =>
          /\ RowsAreIncludedRuns(response.results.design_matrix.runs,
                LAMBDA a : response.results.design_matrix.runs[a].standard_order,
                LAMBDA a : response.results.design_matrix.runs[a].run_order)
          /\ response.results.design_matrix.n_runs = Cardinality(IncludedRuns)
    /\ pc = "done" =>
          \E sel \in Selections :
              /\ response = Response(full_analysis(experiment, sel, lib).exc,
                                     full_analysis(experiment, sel, lib).results)
              /\ response = Response(full_analysis(WithoutExcludedRuns, sel, lib).exc,
                                     full_analysis(WithoutExcludedRuns, sel, lib).results)

\* answered over two included runs created against their standard order,
\* with an excluded run that carries a response between them
C7_Witness ==
    /\ pc = "done"
    /\ response.status = HTTP_200_OK
    /\ Len(experiment.runs) = 3
    /\ experiment.runs[1].standard_order = 3 /\ ~experiment.runs[1].is_excluded
    /\ experiment.runs[2].standard_order = 2 /\ experiment.runs[2].is_excluded
    /\ experiment.runs[2].response_values[1] = Num(20)
    /\ experiment.runs[3].standard_order = 1 /\ ~experiment.runs[3].is_excluded
    /\ response.results.design_matrix.runs[1].standard_order = 1

----------------------------------------------------------------------------
(* Scenario 5: generated two-level designs (one factor replicated, two     *)
(* factors with four runs or with the first run repeated as a fifth) whose *)
(* responses are filled in run by run, and the 2^3 example                 *)
(* of the calculation tests with its data; then the analysis is requested. *)

MaxReplicates == 2

ResponseReadings == {10, 20}

\* generated runs of a full two-level design in standard order, no responses:
\* factor j alternates in blocks of 2^(j-1)
two_level_runs(k, n, levels) ==
    [i \in 1..n |->
        ExperimentRun(i, i, i, FALSE,
            [j \in 1..k |-> Num(levels[j][1 + (((i - 1) \div Pow2(j - 1)) % 2)])],
            <<>>)]

TwoLevelDesign(k, n) ==
    [factors |-> [j \in 1..k |->
                    Factor(j, KnownSymbols[j], KnownFactorNames[j], "quantitative")],
     response_variables |-> << ResponseVariable(1, 1) >>,
     runs |-> two_level_runs(k, n, [j \in 1..k |-> <<1, 2>>])]

MontgomeryMIPS == <<10, 20, 30, 40, 15, 25, 35, 45>>

Montgomery ==
    [factors |-> << Factor(1, <<"M">>, <<"M", "e", "m", "o", "r", "y", " ", "S", "i", "z", "e">>, "quantitative"),
                    Factor(2, <<"C">>, <<"C", "a", "c", "h", "e", " ", "S", "i", "z", "e">>, "quantitative"),
                    Factor(3, <<"P">>, <<"N", "u", "m", "b", "e", "r", " ", "o", "f", " ", "P", "r", "o", "c", "e", "s", "s", "o", "r", "s">>, "quantitative") >>,
     response_variables |-> << ResponseVariable(1, 1) >>,
     runs |-> [i \in 1..8 |->
                 [two_level_runs(3, 8, << <<4, 16>>, <<1, 2>>, <<1, 2>> >>)[i]
                     EXCEPT !.response_values = [id \in {1} |-> Num(MontgomeryMIPS[i])]]]]

InitEffects ==
    /\ pc = "edit"
    /\ obj = PyNone /\ cleaned = PyNone /\ recleaned = PyNone
    /\ lib \in {NoLib, [NoLib EXCEPT !.fit = "nan"],
                [NoLib EXCEPT !.p = "low"], [NoLib EXCEPT !.p = "edge"]}
    /\ experiment \in {TwoLevelDesign(1, 2 * reps) : reps \in 1..MaxReplicates}
                      \cup {TwoLevelDesign(2, 4), TwoLevelDesign(2, 5), Montgomery}
    /\ service = NoService
    /\ response = NoResponse

FillResponse ==
    \E i \in DOMAIN experiment.runs :
        /\ DOMAIN experiment.runs[i].response_values = {}
        /\ \E y \in ResponseReadings :
              update_responses(i, [id \in {1} |-> Num(y)])

NextEffects ==
    \/ FillResponse
    \/ experiment_analysis

SpecEffects == InitEffects /\ [][NextEffects]_vars

\* |a - b| <= 0.1 for two numbers
WithinTenth(a, b) ==
    /\ a.t = "num" /\ b.t = "num"
    /\ 10 * Abs(a.n * b.d - b.n * a.d) <= a.d * b.d

Answered == pc = "done" /\ response.status = HTTP_200_OK

\* the factor's column of the design table shows exactly two levels
TwoObservedLevels(j) == Len(LevelsOf(Column(service.df_design, j))) = 2

SignMatrixEffect(j) == response.results.design_matrix.effects[1 + j]

\* C9 with the sign kept: for every factor with exactly two observed levels
\* the main effect of the effects section equals the sign-matrix effect of
\* the factor's column within 0.1
C9_MainEffectEqualsSignMatrixEffect ==
    Answered =>
        \A j \in DOMAIN experiment.factors :
            TwoObservedLevels(j) =>
                /\ j \in DOMAIN response.results.effects.main_effects
                /\ WithinTenth(response.results.effects.main_effects[j].effect,
                               SignMatrixEffect(j))

\* the design is a two-level factorial, every included run has its response
\* and each level of factor j is met in half of the included runs
BalancedWithResponses(j) ==
    LET dm == response.results.design_matrix
        last == Len(dm.headers)
    IN  /\ dm.is_two_level_factorial
        /\ \A a \in DOMAIN dm.runs : dm.runs[a].values[last].t = "num"
        /\ 2 * Cardinality({a \in DOMAIN dm.runs :
                               dm.runs[a].values_coded[1 + j] = QInt(-1)}) = dm.n_runs
        /\ 2 * Cardinality({a \in DOMAIN dm.runs :
                               dm.runs[a].values_coded[1 + j] = QInt(1)}) = dm.n_runs

\* C9: for every factor with exactly two observed levels, in a two-level
\* factorial whose included runs all have the response and meet each level
\* of the factor equally often, the main effect of the effects section
\* equals the absolute value of the sign-matrix effect within 0.1, for every
\* assignment of responses (the main effect is a range and never negative).
C9_MainEffectIsAbsoluteSignMatrixEffect ==
    Answered =>
        \A j \in DOMAIN experiment.factors :
            TwoObservedLevels(j) /\ BalancedWithResponses(j) =>
                /\ j \in DOMAIN response.results.effects.main_effects
                /\ WithinTenth(response.results.effects.main_effects[j].effect,
                               QAbs(SignMatrixEffect(j)))

\* an answered balanced design whose response falls from the low level to
\* the high level of the first factor
C9_Witness ==
    /\ Answered
    /\ TwoObservedLevels(1) /\ BalancedWithResponses(1)
    /\ SignMatrixEffect(1).t = "num" /\ SignMatrixEffect(1).n < 0
    /\ response.results.effects.main_effects[1].effect.n > 0

MontgomerySS == <<200, 800, 50>>

\* run_count x (sign-matrix effect / 2)^2
EffectSumOfSquares(j) ==
    LET q == QDiv(SignMatrixEffect(j), QInt(2))
    IN  QMul(QInt(response.results.design_matrix.n_runs), QMul(q, q))

\* C10: the ANOVA sum of squares of the source of each factor column is
\* about run_count x (sign-matrix effect / 2)^2, in the row labelled
\* "<name> (<symbol>)"; on the 2^3 example of the tests the rows labelled
\* 'Memory Size (M)', 'Cache Size (C)', 'Number of Processors (P)' carry
\* 200, 800 and 50.  Stated where the fit yields numbers.
C10_AnovaSumOfSquaresMatchesEffects ==
    Answered /\ experiment = Montgomery /\ lib.fit = "finite" =>
        \A j \in DOMAIN experiment.factors :
            \E a \in DOMAIN response.results.anova.table :
                /\ response.results.anova.table[a].source = full_name(experiment.factors[j])
                /\ WithinTenth(response.results.anova.table[a].sum_sq, EffectSumOfSquares(j))
                /\ WithinTenth(response.results.anova.table[a].sum_sq, QInt(MontgomerySS[j]))

----------------------------------------------------------------------------
(* The percent contributions of the sign matrix on the 2^3 example.        *)

\* |a - b| <= 1.0 for two numbers
WithinOne(a, b) ==
    /\ a.t = "num" /\ b.t = "num"
    /\ Abs(a.n * b.d - b.n * a.d) <= a.d * b.d

SignMatrixContribution(j) == response.results.design_matrix.contributions[1 + j]

\* hundredths of a percent
DocstringContributions == <<1538, 6154, 385>>
MontgomeryContributions == <<1905, 7619, 476>>

----------------------------------------------------------------------------
(* Scenario 6: one or two factors (quantitative or categorical, plain or   *)
(* reserved symbols) and one response variable; runs are created with      *)
(* levels 1, 2 or 3, some without a factor value or without the response,  *)
(* so that the design may be incomplete, unbalanced or not two-level; then *)
(* the analysis is requested.                                              *)

MaxDesignRuns == 4

\* the runs offered: the levels of the two factors (0: no value stored) and
\* the response (0: no value stored)
DesignCatalogue ==
    << [x |-> <<1, 1>>, y |-> 10], [x |-> <<1, 1>>, y |-> 20],
       [x |-> <<2, 1>>, y |-> 10], [x |-> <<2, 1>>, y |-> 20],
       [x |-> <<0, 1>>, y |-> 10],
       [x |-> <<1, 2>>, y |-> 10], [x |-> <<1, 2>>, y |-> 20],
       [x |-> <<2, 2>>, y |-> 10], [x |-> <<2, 2>>, y |-> 20],
       [x |-> <<3, 2>>, y |-> 20],
       [x |-> <<2, 2>>, y |-> 0] >>

FactorSetups ==
    { << Factor(1, <<"A">>, KnownFactorNames[1], "quantitative") >>,
      << Factor(1, <<"C">>, KnownFactorNames[3], "quantitative"),
         Factor(2, <<"I">>, KnownFactorNames[2], "quantitative") >>,
      << Factor(1, <<"A">>, KnownFactorNames[1], "quantitative"),
         Factor(2, <<"B">>, KnownFactorNames[2], "categorical") >> }

InitDesign ==
    /\ pc = "edit"
    /\ obj = PyNone /\ cleaned = PyNone /\ recleaned = PyNone
    /\ lib = NoLib
    /\ experiment \in {[factors |-> factors,
                        response_variables |-> << ResponseVariable(1, 1) >>,
                        runs |-> <<>>] : factors \in FactorSetups}
    /\ service = NoService
    /\ response = NoResponse

\* the stored values of a run of the catalogue
catalogue_factor_values(c) ==
    [j \in {j \in DOMAIN experiment.factors : DesignCatalogue[c].x[j] # 0} |->
        Num(DesignCatalogue[c].x[j])]

catalogue_response_values(c) ==
    [id \in {id \in {1} : DesignCatalogue[c].y # 0} |-> Num(DesignCatalogue[c].y)]

\* the first catalogue entry a stored run was created from
catalogue_entry(run) ==
    CHOOSE c \in DOMAIN DesignCatalogue :
        /\ run.factor_values = catalogue_factor_values(c)
        /\ run.response_values = catalogue_response_values(c)
        /\ \A b \in 1..(c - 1) :
              \/ run.factor_values # catalogue_factor_values(b)
              \/ run.response_values # catalogue_response_values(b)

\* runs are created in the order of the catalogue, standard_order and
\* run_order being the creation order; the run without a value of the first
\* factor stands between runs that have one
AddDesignRun ==
    /\ Len(experiment.runs) < MaxDesignRuns
    /\ \E c \in DOMAIN DesignCatalogue :
          /\ experiment.runs # <<>> =>
                c >= catalogue_entry(experiment.runs[Len(experiment.runs)])
          /\ create_run(Len(experiment.runs) + 1, Len(experiment.runs) + 1, FALSE,
                        catalogue_factor_values(c), catalogue_response_values(c))

NextDesign ==
    \/ AddDesignRun
    \/ experiment_analysis

SpecDesign == InitDesign /\ [][NextDesign]_vars

----------------------------------------------------------------------------
(* The degrees of freedom of the ANOVA table.                              *)

AnovaTable == response.results.anova.table

TotalLabel == <<"T", "o", "t", "a", "l">>
ResidualLabel == <<"R", "e", "s", "i", "d", "u", "a", "l">>

\* the fit ran on numbers only and the table carries its degrees of freedom
DegreesOfFreedomKnown ==
    /\ Answered
    /\ \A a \in DOMAIN AnovaTable : AnovaTable[a].df.t = "num"

\* C12: the degrees of freedom of the rows other than 'Total' sum to
\* run_count - 1, which is also the df of the Total row, run_count being the
\* number of included runs; in a two-level design every row other than
\* Residual and Total has df = 1.
C12_DegreesOfFreedomSumToRunsMinusOne ==
    DegreesOfFreedomKnown =>
        /\ QSum([a \in 1..(Len(AnovaTable) - 1) |-> AnovaTable[a].df])
              = QInt(service.num_runs - 1)
        /\ AnovaTable[Len(AnovaTable)].source = TotalLabel
        /\ AnovaTable[Len(AnovaTable)].df = QInt(service.num_runs - 1)
        /\ response.results.design_matrix.is_two_level_factorial =>
              \A a \in 1..(Len(AnovaTable) - 1) :
                  AnovaTable[a].term # <<>> => AnovaTable[a].df = QInt(1)

----------------------------------------------------------------------------
(* The fit of a saturated two-level design.                                *)

\* a two-level factorial with 2^k included runs, all with the response and
\* every factor value, no two at the same level combination
SaturatedTwoLevel ==
    /\ Answered
    /\ response.results.design_matrix.is_two_level_factorial
    /\ service.num_runs = Pow2(Len(experiment.factors))
    /\ Cardinality(CompleteRuns) = Pow2(Len(experiment.factors))
    /\ Cardinality(observed_cells(service)) = service.num_runs
    /\ \A c \in observed_cells(service) : \A j \in DOMAIN c : c[j].t = "num"

ResponsesAllEqual ==
    \A a, b \in DOMAIN service.df_responses.rows :
        service.df_responses.rows[a].x[1] = service.df_responses.rows[b].x[1]

HasResidualRow == \E a \in DOMAIN AnovaTable : AnovaTable[a].source = ResidualLabel

----------------------------------------------------------------------------
(* The source labels of the ANOVA table.                                   *)

\* the label the row of a term is to carry: the display forms of its
\* members joined by ':'
DisplayLabel(term) ==
    str_join(<<":">>, [m \in DOMAIN term |-> full_name(experiment.factors[term[m]])])

\* C14: for every factor, reserved symbol (C, I, Q) or not, the source label
\* of its main-effect row is exactly '<Name> (<Symbol>)' and the label of
\* each two-way interaction row is the two display forms joined by ':'; no
\* alias, quoting or wrapper text remains in a label.
C14_SourceLabelsAreDisplayForms ==
    Answered =>
        \A a \in DOMAIN AnovaTable :
            AnovaTable[a].term # <<>> =>
                AnovaTable[a].source = DisplayLabel(AnovaTable[a].term)

----------------------------------------------------------------------------
(* The Pareto data.                                                        *)

Pareto == response.results.plots_data.pareto

ParetoTotal == QSum(Pareto.values)

\* C15: plots_data.pareto has one entry per emitted main effect and per
\* emitted two-way interaction; the values are in non-increasing order; the
\* cumulative sequence is non-decreasing, ends at 100 when the total of the
\* magnitudes is > 0, and is 0 throughout when the total is 0.
C15_ParetoSortedAndCumulative ==
    Answered =>
        /\ Len(Pareto.values)
              = Cardinality(DOMAIN response.results.effects.main_effects)
                + Cardinality(DOMAIN response.results.effects.interactions)
        /\ Len(Pareto.labels) = Len(Pareto.values)
        /\ Len(Pareto.cumulative) = Len(Pareto.values)
        /\ \A i \in 1..(Len(Pareto.values) - 1) :
              ~QLess(Pareto.values[i], Pareto.values[i + 1])
        /\ \A i \in 1..(Len(Pareto.values) - 1) :
              ~QLess(Pareto.cumulative[i + 1], Pareto.cumulative[i])
        /\ \A i \in DOMAIN Pareto.values :
              /\ Pareto.values[i].t = "num" /\ ~QLess(Pareto.values[i], QInt(0))
              /\ Pareto.cumulative[i].t = "num"
        /\ QLess(QInt(0), ParetoTotal) /\ Pareto.values # <<>> =>
              Pareto.cumulative[Len(Pareto.values)] = QInt(100)
        /\ ParetoTotal = QInt(0) =>
              \A i \in DOMAIN Pareto.cumulative : Pareto.cumulative[i] = QInt(0)

\* three entries of different magnitudes, the second-largest first in dict
\* order, and a cumulative sequence that rises to 100
C15_Witness ==
    /\ Answered
    /\ Len(Pareto.values) = 3
    /\ QLess(Pareto.values[2], Pareto.values[1])
    /\ Pareto.labels[1] # <<1>>
    /\ Pareto.cumulative[3] = QInt(100)

\* every magnitude is 0 and so is every cumulative value
C15_WitnessZeroTotal ==
    /\ Answered
    /\ Len(Pareto.values) = 3
    /\ ParetoTotal = QInt(0)
    /\ Pareto.cumulative[3] = QInt(0)

----------------------------------------------------------------------------
(* Scenario 7: the requests that store, change and delete runs.  A request *)
(* carries the two orders of each run; response holds the operation, the   *)
(* status answered and, for a request about a single run, its data.        *)

HTTP_201_CREATED == 201

MaxStoredRuns == 2

HTTP_404_NOT_FOUND == 404

\* the positions a request may name
Orders == {1, 2, 3}

RunData == [standard_order : Orders, run_order : Orders]

\* validate_standard_order and validate_run_order of the create serializer
run_is_valid_standard_order_only(runs, data) ==
    \A i \in DOMAIN runs : runs[i].standard_order # data.standard_order

run_is_valid(runs, data) ==
    /\ \A i \in DOMAIN runs : runs[i].standard_order # data.standard_order
    /\ \A i \in DOMAIN runs : runs[i].run_order # data.run_order

\* the same checks of the update serializer, the run itself left out
run_update_is_valid(runs, i, data) ==
    /\ \A a \in DOMAIN runs \ {i} : runs[a].standard_order # data.standard_order
    /\ \A a \in DOMAIN runs \ {i} : runs[a].run_order # data.run_order

\* a primary key no stored run has (the database never reuses one; the
\* requests never compare keys, and the smallest free one keeps them bounded)
next_id(runs) ==
    CHOOSE id \in 1..(Len(runs) + 1) :
        /\ \A i \in DOMAIN runs : runs[i].id # id
        /\ \A smaller \in 1..(id - 1) : \E i \in DOMAIN runs : runs[i].id = smaller

\* serializer.save(experiment=experiment)
save_run(runs, data, factor_values) ==
    Append(runs, ExperimentRun(next_id(runs), data.standard_order, data.run_order,
                               FALSE, factor_values, <<>>))

\* the loop of bulk_create and import_from_excel: each valid run is saved,
\* each invalid one is reported
RECURSIVE save_each(_, _, _)
save_each(runs, datas, errors) ==
    IF datas = <<>> THEN [runs |-> runs, errors |-> errors]
    ELSE IF run_is_valid(runs, datas[1])
    THEN save_each(save_run(runs, datas[1], <<>>), Tail(datas), errors)
    ELSE save_each(runs, Tail(datas), errors + 1)

Answer(op, data, status) == [op |-> op, data |-> data, status |-> status]

\* the answer of import_from_excel: the status and the count it reports,
\* kept together with the request it answers
ImportAnswer(replace, datas, status, created) ==
    [op |-> "import_from_excel", data |-> <<>>, status |-> status,
     created |-> created, request |-> [replace |-> replace, runs |-> datas]]

\* Experiment.Status
DRAFT == "draft"
DESIGN_READY == "design_ready"
DATA_COLLECTION == "data_collection"

\* the experiment with the status field of the model
with_status(exp, status) ==
    [field \in DOMAIN exp \cup {"status"} |->
        IF field = "status" THEN status ELSE exp[field]]

\* reading an attribute of a model instance succeeds for a field the model
\* declares and raises AttributeError for any other name
has_attribute(instance, name) == name \in DOMAIN instance

\* the run lists an import may carry: none, one or two runs on the first
\* two positions
ImportData == [standard_order : {1, 2}, run_order : {1, 2}]

RunLists ==
    {<<>>} \cup {<<d>> : d \in ImportData}
           \cup {<<d1, d2>> : d1 \in ImportData, d2 \in ImportData}

InitRuns ==
    /\ pc = "edit"
    /\ obj = PyNone /\ cleaned = PyNone /\ recleaned = PyNone
    /\ lib = NoLib
    /\ experiment \in {with_status(OneFactorOneResponse, status) :
                          status \in {DRAFT, DATA_COLLECTION}}
    /\ service = NoService
    /\ response = Answer("none", <<>>, 0)

\* ExperimentRunViewSet.create
RunCreate ==
    \E data \in RunData :
        /\ IF run_is_valid(experiment.runs, data)
           THEN /\ Len(experiment.runs) < MaxStoredRuns
                /\ experiment' = [experiment EXCEPT !.runs = save_run(@, data, <<>>)]
                /\ response' = Answer("create", <<data>>, HTTP_201_CREATED)
           ELSE /\ experiment' = experiment
                /\ response' = Answer("create", <<data>>, HTTP_400_BAD_REQUEST)
        /\ UNCHANGED <<pc, obj, cleaned, recleaned, lib, service>>

\* ExperimentRunViewSet.bulk_create with two runs
RunBulkCreate ==
    \E d1 \in RunData, d2 \in RunData :
        /\ Len(experiment.runs) + 2 <= MaxStoredRuns
        /\ \E out \in {save_each(experiment.runs, <<d1, d2>>, 0)} :
              /\ experiment' = [experiment EXCEPT !.runs = out.runs]
              /\ response' = Answer("bulk_create", <<>>,
                                    IF out.errors > 0 THEN HTTP_400_BAD_REQUEST
                                    ELSE HTTP_201_CREATED)
        /\ UNCHANGED <<pc, obj, cleaned, recleaned, lib, service>>

\* the status generate_runs and import_from_excel leave after storing runs
status_after_runs_stored(status) ==
    IF status = DRAFT THEN DESIGN_READY ELSE status

\* ExperimentViewSet.generate_runs: the two refusals, then the read of
\* experiment.replicates (line 203), which the Experiment model does not
\* declare, so the request ends in an unhandled AttributeError before a run
\* is created; the lines after it are never reached
GenerateRuns ==
    /\ IF Len(experiment.runs) > 0 \/ Len(experiment.factors) = 0
       THEN /\ experiment' = experiment
            /\ response' = Answer("generate_runs", <<>>, HTTP_400_BAD_REQUEST)
       ELSE /\ ~has_attribute(experiment, "replicates")
            /\ experiment' = experiment
            /\ response' = Answer("generate_runs", <<>>,
                                  HTTP_500_INTERNAL_SERVER_ERROR)
    /\ UNCHANGED <<pc, obj, cleaned, recleaned, lib, service>>

\* ExperimentViewSet.delete_all_runs
DeleteAllRuns ==
    /\ IF Len(experiment.runs) = 0
       THEN /\ experiment' = experiment
            /\ response' = Answer("delete_all_runs", <<>>, HTTP_404_NOT_FOUND)
       ELSE /\ experiment' = [experiment EXCEPT
                    !.runs = <<>>,
                    !.status = IF @ = DESIGN_READY THEN DRAFT ELSE @]
            /\ response' = Answer("delete_all_runs", <<>>, HTTP_200_OK)
    /\ UNCHANGED <<pc, obj, cleaned, recleaned, lib, service>>

\* the status import_from_excel leaves: changed only if a run was created
status_after_any_import(status, created) == status_after_runs_stored(status)

status_after_import(status, created) ==
    IF created > 0 THEN status_after_runs_stored(status) ELSE status

\* ExperimentRunViewSet.import_from_excel: one transaction, rolled back
\* whole when a run of the request was reported
ImportFromExcel ==
    \E replace \in BOOLEAN, datas \in RunLists :
        /\ (IF replace THEN 0 ELSE Len(experiment.runs)) + Len(datas)
              <= MaxStoredRuns
        /\ \E out \in {save_each(IF replace THEN <<>> ELSE experiment.runs,
                                 datas, 0)} :
              IF out.errors > 0
              THEN /\ experiment' = experiment
                   /\ response' = ImportAnswer(replace, datas,
                                               HTTP_400_BAD_REQUEST, 0)
              ELSE /\ experiment' = [experiment EXCEPT
                          !.runs = out.runs,
                          !.status = status_after_import(@, Len(datas))]
                   /\ response' = ImportAnswer(replace, datas,
                                               HTTP_201_CREATED, Len(datas))
        /\ UNCHANGED <<pc, obj, cleaned, recleaned, lib, service>>

\* ExperimentRunViewSet.update / partial_update of the two orders
RunUpdate ==
    \E i \in DOMAIN experiment.runs, data \in RunData :
        /\ IF run_update_is_valid(experiment.runs, i, data)
           THEN /\ experiment' = [experiment EXCEPT
                                    !.runs[i].standard_order = data.standard_order,
                                    !.runs[i].run_order = data.run_order]
                /\ response' = Answer("update", <<data>>, HTTP_200_OK)
           ELSE /\ experiment' = experiment
                /\ response' = Answer("update", <<data>>, HTTP_400_BAD_REQUEST)
        /\ UNCHANGED <<pc, obj, cleaned, recleaned, lib, service>>

\* ExperimentRunViewSet.destroy (the framework's mixin answers 204)
RunDestroy ==
    \E i \in DOMAIN experiment.runs :
        /\ experiment' = [experiment EXCEPT !.runs = without_entry(@, i)]
        /\ response' = Answer("destroy", <<>>, 204)
        /\ UNCHANGED <<pc, obj, cleaned, recleaned, lib, service>>

\* ExperimentRunViewSet.bulk_delete
RunBulkDelete ==
    /\ experiment' = [experiment EXCEPT !.runs = <<>>]
    /\ response' = Answer("bulk_delete", <<>>, HTTP_200_OK)
    /\ UNCHANGED <<pc, obj, cleaned, recleaned, lib, service>>

NextRuns ==
    \/ RunCreate
    \/ RunBulkCreate
    \/ GenerateRuns
    \/ ImportFromExcel
    \/ RunUpdate
    \/ RunDestroy
    \/ RunBulkDelete
    \/ DeleteAllRuns

SpecRuns == InitRuns /\ [][NextRuns]_vars

\* no two stored runs share a standard_order, no two share a run_order
UniqueOrders ==
    \A a, b \in DOMAIN experiment.runs :
        a # b => /\ experiment.runs[a].standard_order # experiment.runs[b].standard_order
                 /\ experiment.runs[a].run_order # experiment.runs[b].run_order

\* a stored run already has one of the two orders of the data
Conflicts(data) ==
    \E i \in DOMAIN experiment.runs :
        \/ experiment.runs[i].standard_order = data.standard_order
        \/ experiment.runs[i].run_order = data.run_order

\* what a step does with the request it answers
ConflictingRunIsRejected ==
    /\ response'.op = "create" =>
          IF Conflicts(response'.data[1])
          THEN response'.status = HTTP_400_BAD_REQUEST /\ experiment' = experiment
          ELSE /\ response'.status = HTTP_201_CREATED
               /\ Len(experiment'.runs) = Len(experiment.runs) + 1
    /\ response'.op \in {"update", "import_from_excel", "generate_runs"}
          /\ response'.status = HTTP_400_BAD_REQUEST => experiment' = experiment
    /\ response'.op = "bulk_create" =>
          (response'.status = HTTP_400_BAD_REQUEST
              <=> Len(experiment'.runs) < Len(experiment.runs) + 2)

\* C16: after any sequence of run operations (single create, bulk_create,
\* generate_runs, import_from_excel, update, delete) no two runs of the
\* experiment share a standard_order and no two share a run_order; a request
\* to store a run that would break either uniqueness is rejected and that
\* run is not stored.
C16_OrdersStayUnique == []UniqueOrders /\ [][ConflictingRunIsRejected]_vars

\* a single create was rejected for the run order of a stored run, its
\* standard order being free
C16_Witness ==
    /\ response.op = "create" /\ response.status = HTTP_400_BAD_REQUEST
    /\ Len(experiment.runs) = 2
    /\ \E i \in DOMAIN experiment.runs :
          /\ experiment.runs[i].run_order = response.data[1].run_order
          /\ experiment.runs[i].standard_order # response.data[1].standard_order
    /\ \A i \in DOMAIN experiment.runs :
          experiment.runs[i].standard_order # response.data[1].standard_order

----------------------------------------------------------------------------
(* The sign matrix: flag, headers, rows and totals.                        *)

SignMatrix == response.results.design_matrix

\* the numeric values stored for factor j in the included runs
ObservedValues(j) ==
    {experiment.runs[i].factor_values[experiment.factors[j].id].v :
        i \in {i \in IncludedRuns :
                 /\ experiment.factors[j].id \in DOMAIN experiment.runs[i].factor_values
                 /\ experiment.runs[i].factor_values[experiment.factors[j].id].t = "num"}}

LowValue(j) == CHOOSE v \in ObservedValues(j) : \A w \in ObservedValues(j) : v <= w
HighValue(j) == CHOOSE v \in ObservedValues(j) : \A w \in ObservedValues(j) : w <= v

\* C17: the two-level-factorial flag is true iff every factor is
\* quantitative and has exactly 2 distinct observed numeric values across
\* the included runs; when true, every factor header carries the mapping of
\* -1 to the smaller and +1 to the larger value and a row holding the
\* smaller value is coded -1, one holding the larger +1; when false no
\* header carries a level mapping.
C17_TwoLevelFlagAndMapping ==
    Answered =>
        /\ SignMatrix.is_two_level_factorial
              <=> \A j \in DOMAIN experiment.factors :
                      /\ experiment.factors[j].data_type = "quantitative"
                      /\ Cardinality(ObservedValues(j)) = 2
        /\ SignMatrix.is_two_level_factorial =>
              \A j \in DOMAIN experiment.factors :
                  /\ SignMatrix.headers[1 + j].level_mapping
                        = <<LowValue(j), HighValue(j)>>
                  /\ LowValue(j) < HighValue(j)
                  /\ \A a \in DOMAIN SignMatrix.runs :
                        /\ SignMatrix.runs[a].values[1 + j] = QInt(LowValue(j))
                              => SignMatrix.runs[a].values_coded[1 + j] = QInt(-1)
                        /\ SignMatrix.runs[a].values[1 + j] = QInt(HighValue(j))
                              => SignMatrix.runs[a].values_coded[1 + j] = QInt(1)
        /\ ~SignMatrix.is_two_level_factorial =>
              \A c \in DOMAIN SignMatrix.headers :
                  SignMatrix.headers[c].level_mapping = <<>>

\* two quantitative factors on two levels each: flag and mappings present
C17_Witness ==
    /\ Answered
    /\ Len(experiment.factors) = 2
    /\ SignMatrix.is_two_level_factorial
    /\ SignMatrix.headers[2].level_mapping = <<1, 2>>
    /\ SignMatrix.headers[3].level_mapping = <<1, 2>>

\* a quantitative factor on three levels: no flag, no mapping
C17_WitnessThreeLevels ==
    /\ Answered
    /\ Cardinality(ObservedValues(1)) = 3
    /\ ~SignMatrix.is_two_level_factorial


FactorCount == Len(experiment.factors)

\* index sequence a comes before index sequence b of the same length
LexLess(a, b) ==
    \E i \in DOMAIN a :
        /\ a[i] < b[i]
        /\ \A j \in 1..(i - 1) : a[j] = b[j]

\* the symbols of the member factors, one after the other
RECURSIVE MemberSymbols(_)
MemberSymbols(members) ==
    IF members = <<>> THEN <<>>
    ELSE experiment.factors[members[1]].symbol \o MemberSymbols(Tail(members))

InteractionColumns == (FactorCount + 2)..(Len(SignMatrix.headers) - 1)

\* C18: for k factors the headers are Intercept, the k factors in factor
\* order, one interaction per subset of factor indices of every size 2..k
\* (sizes ascending, one size in lexicographic index order, the symbol being
\* the member symbols concatenated), then Response; there are 2^k + 1 of
\* them, and every value row, coded row and the totals, means, effects and
\* contributions have that length.
C18_HeaderSequenceAndLengths ==
    Answered =>
        /\ Len(SignMatrix.headers) = 2^FactorCount + 1
        /\ SignMatrix.headers[1].type = "intercept"
        /\ \A j \in 1..FactorCount :
              /\ SignMatrix.headers[1 + j].type = "factor"
              /\ SignMatrix.headers[1 + j].symbol = experiment.factors[j].symbol
        /\ \A c \in InteractionColumns :
              /\ SignMatrix.headers[c].type = "interaction"
              /\ Len(SignMatrix.headers[c].factors) \in 2..FactorCount
              /\ \A m \in DOMAIN SignMatrix.headers[c].factors :
                    /\ SignMatrix.headers[c].factors[m] \in 1..FactorCount
                    /\ m > 1 => SignMatrix.headers[c].factors[m - 1]
                                   < SignMatrix.headers[c].factors[m]
              /\ SignMatrix.headers[c].symbol
                    = MemberSymbols(SignMatrix.headers[c].factors)
              /\ c + 1 \in InteractionColumns =>
                    \/ Len(SignMatrix.headers[c].factors)
                          < Len(SignMatrix.headers[c + 1].factors)
                    \/ /\ Len(SignMatrix.headers[c].factors)
                             = Len(SignMatrix.headers[c + 1].factors)
                       /\ LexLess(SignMatrix.headers[c].factors,
                                  SignMatrix.headers[c + 1].factors)
        /\ SignMatrix.headers[Len(SignMatrix.headers)].type = "response"
        /\ \A a \in DOMAIN SignMatrix.runs :
              /\ Len(SignMatrix.runs[a].values) = 2^FactorCount + 1
              /\ Len(SignMatrix.runs[a].values_coded) = 2^FactorCount + 1
        /\ Len(SignMatrix.totals) = 2^FactorCount + 1
        /\ Len(SignMatrix.means) = 2^FactorCount + 1
        /\ Len(SignMatrix.effects) = 2^FactorCount + 1
        /\ Len(SignMatrix.contributions) = 2^FactorCount + 1

\* three factors M, C, P: the nine headers I M C P MC MP CP MCP Y
C18_Witness ==
    /\ Answered
    /\ FactorCount = 3
    /\ [c \in DOMAIN SignMatrix.headers |-> SignMatrix.headers[c].symbol]
          = << <<"I">>, <<"M">>, <<"C">>, <<"P">>, <<"M", "C">>, <<"M", "P">>,
               <<"C", "P">>, <<"M", "C", "P">>, <<"Y">> >>
    /\ Len(SignMatrix.runs) = 8


\* the stored run shown in row a of the table
RunOfRow(a) ==
    experiment.runs[CHOOSE i \in IncludedRuns :
        experiment.runs[i].standard_order = SignMatrix.runs[a].standard_order]

PlusOrMinusOne == {QInt(-1), QInt(1)}

\* the product of a sequence of entries
RECURSIVE ProductOf(_)
ProductOf(seq) == IF seq = <<>> THEN QInt(1) ELSE QMul(seq[1], ProductOf(Tail(seq)))

\* C19: in every run row of a two-level-factorial sign matrix the Intercept
\* entry is 1 in both rows, each quantitative factor's coded entry is -1 or
\* +1 and its value entry the real observed value, and each interaction's
\* value entry and coded entry are the products of its members' value and
\* coded entries, so that every coded interaction entry is -1 or +1.
C19_CodedEntriesArePlusOrMinusOne ==
    (Answered /\ SignMatrix.is_two_level_factorial) =>
        \A a \in DOMAIN SignMatrix.runs :
            /\ SignMatrix.runs[a].values[1] = QInt(1)
            /\ SignMatrix.runs[a].values_coded[1] = QInt(1)
            /\ \A j \in 1..FactorCount :
                  /\ SignMatrix.runs[a].values_coded[1 + j] \in PlusOrMinusOne
                  /\ experiment.factors[j].id \in DOMAIN RunOfRow(a).factor_values
                  /\ RunOfRow(a).factor_values[experiment.factors[j].id].t = "num"
                  /\ SignMatrix.runs[a].values[1 + j]
                        = QInt(RunOfRow(a).factor_values[experiment.factors[j].id].v)
            /\ \A c \in InteractionColumns :
                  /\ SignMatrix.runs[a].values[c]
                        = ProductOf([m \in DOMAIN SignMatrix.headers[c].factors |->
                             SignMatrix.runs[a].values[1 + SignMatrix.headers[c].factors[m]]])
                  /\ SignMatrix.runs[a].values_coded[c]
                        = ProductOf([m \in DOMAIN SignMatrix.headers[c].factors |->
                             SignMatrix.runs[a].values_coded[1 + SignMatrix.headers[c].factors[m]]])
                  /\ SignMatrix.runs[a].values_coded[c] \in PlusOrMinusOne


\* the response entry of row a
ResponseOfRow(a) == SignMatrix.runs[a].values[Len(SignMatrix.headers)]

\* the rows where the coded entry of column c is a number and the response
\* is present
RowsWithBoth(c) ==
    {a \in DOMAIN SignMatrix.runs :
        /\ IsNumber(SignMatrix.runs[a].values_coded[c])
        /\ ResponseOfRow(a).t # "none"}

\* the sum of f over a finite set of rows
RECURSIVE SumOver(_, _)
SumOver(f, rows) ==
    IF rows = {} THEN QInt(0)
    ELSE QAdd(f[CHOOSE a \in rows : TRUE],
              SumOver(f, rows \ {CHOOSE a \in rows : TRUE}))

----------------------------------------------------------------------------
(* Means, effects and contributions of the sign matrix.                    *)

FactorAndInteractionColumns == 2..(Len(SignMatrix.headers) - 1)

\* the quotient as the response shows it: a total that was not finite is
\* shown as null, and so is everything computed from it
ShownQuotient(total, divisor) ==
    IF total.t = "num" THEN QDiv(total, divisor) ELSE QNone

\* C21: every column mean of the sign matrix is total / n and every factor
\* or interaction column effect is total / (n / 2), n being the number of
\* included runs whether or not each of them has the selected response; the
\* Intercept and Response columns have a null effect.
C21_MeansAndEffectsOverIncludedRuns ==
    Answered =>
        /\ SignMatrix.n_runs = Cardinality(IncludedRuns)
        /\ \A c \in DOMAIN SignMatrix.headers :
              SignMatrix.means[c]
                 = ShownQuotient(SignMatrix.totals[c], QInt(Cardinality(IncludedRuns)))
        /\ \A c \in FactorAndInteractionColumns :
              SignMatrix.effects[c]
                 = ShownQuotient(SignMatrix.totals[c], Q(Cardinality(IncludedRuns), 2))
        /\ SignMatrix.effects[1] = QNone
        /\ SignMatrix.effects[Len(SignMatrix.headers)] = QNone

\* three included runs, one of them without the response: the divisor is 3
C21_Witness ==
    /\ Answered
    /\ Cardinality(IncludedRuns) = 3
    /\ \E a \in DOMAIN SignMatrix.runs : ResponseOfRow(a).t = "none"
    /\ SignMatrix.totals[2].t = "num" /\ SignMatrix.totals[2] # QInt(0)
    /\ SignMatrix.effects[2] = QDiv(SignMatrix.totals[2], Q(3, 2))


\* q = effect / 2, and n x q^2, for column c of the table
HalfEffect(c) == QDiv(SignMatrix.effects[c], QInt(2))
ColumnSS(c) == QMul(QInt(SignMatrix.n_runs), QMul(HalfEffect(c), HalfEffect(c)))

ColumnsWithEffect ==
    {c \in FactorAndInteractionColumns : SignMatrix.effects[c].t # "none"}

\* SST = sum over the factor and interaction columns of n x q^2
SST == SumOver([c \in DOMAIN SignMatrix.headers |-> ColumnSS(c)], ColumnsWithEffect)

C22_WitnessZeroSST ==
    /\ Answered
    /\ ColumnsWithEffect # {}
    /\ SST = QInt(0)
    /\ \A c \in FactorAndInteractionColumns : SignMatrix.contributions[c] = QNone


\* C29: whenever SST > 0 in the sign matrix, the percent contribution of
\* every factor and interaction column lies between 0 and 100 and the
\* contributions of these columns sum to 100; the contributions of the
\* Intercept and of the Response are always null.
C29_ContributionsSumToHundred ==
    Answered =>
        /\ SignMatrix.contributions[1] = QNone
        /\ SignMatrix.contributions[Len(SignMatrix.headers)] = QNone
        /\ QLess(QInt(0), SST) =>
              /\ \A c \in FactorAndInteractionColumns :
                    /\ SignMatrix.contributions[c].t = "num"
                    /\ ~QLess(SignMatrix.contributions[c], QInt(0))
                    /\ ~QLess(QInt(100), SignMatrix.contributions[c])
              /\ SumOver(SignMatrix.contributions, FactorAndInteractionColumns)
                    = QInt(100)

\* two factors and their interaction sharing SST, none taking all of it
C29_Witness ==
    /\ Answered
    /\ FactorCount = 2
    /\ QLess(QInt(0), SST)
    /\ \E c \in FactorAndInteractionColumns :
          /\ QLess(QInt(0), SignMatrix.contributions[c])
          /\ QLess(SignMatrix.contributions[c], QInt(100))


----------------------------------------------------------------------------
(* Main effects and interaction effects.                                   *)

MainEffects == response.results.effects.main_effects

\* the included runs that store the number v for factor j and a number for
\* the response
RunsAtLevel(j, v) ==
    {i \in IncludedRuns :
        /\ Get(experiment.runs[i].factor_values, experiment.factors[j].id) = Num(v)
        /\ Get(experiment.runs[i].response_values,
               experiment.response_variables[1].id).t = "num"}

ResponseOfRun(i) ==
    QInt(experiment.runs[i].response_values[experiment.response_variables[1].id].v)

\* the mean of the response over a set of runs, null over no run
MeanOverRuns(runs) ==
    IF runs = {} THEN QNone
    ELSE QDiv(SumOver([i \in DOMAIN experiment.runs |->
                         IF i \in runs THEN ResponseOfRun(i) ELSE QNone], runs),
              QInt(Cardinality(runs)))

LevelMeans(j) ==
    {MeanOverRuns(RunsAtLevel(j, v)) : v \in ObservedValues(j)} \ {QNone}

\* an entry is emitted for a factor exactly when it has two observed levels
EntryIffTwoObservedLevels ==
    \A j \in DOMAIN experiment.factors :
        j \in DOMAIN MainEffects <=> Cardinality(ObservedValues(j)) >= 2

\* the effect of an entry is the largest level mean minus the smallest
EffectIsRangeOfLevelMeans ==
    \A j \in DOMAIN MainEffects :
        \E hi \in LevelMeans(j) : \E lo \in LevelMeans(j) :
            /\ \A m \in LevelMeans(j) : ~QLess(hi, m) /\ ~QLess(m, lo)
            /\ MainEffects[j].effect = QSub(hi, lo)

\* the numbers of the levels list ascend
LevelsAscend ==
    \A j \in DOMAIN MainEffects :
        \A a \in DOMAIN MainEffects[j].levels : \A b \in DOMAIN MainEffects[j].levels :
            (a < b /\ MainEffects[j].levels[a].t = "num"
                   /\ MainEffects[j].levels[b].t = "num")
               => MainEffects[j].levels[a].v < MainEffects[j].levels[b].v

\* the means list has one entry per level, the mean at that level or null
MeansAlignedWithLevels ==
    \A j \in DOMAIN MainEffects :
        /\ Len(MainEffects[j].means) = Len(MainEffects[j].levels)
        /\ \A a \in DOMAIN MainEffects[j].levels :
              MainEffects[j].means[a]
                 = IF MainEffects[j].levels[a].t = "num"
                   THEN MeanOverRuns(RunsAtLevel(j, MainEffects[j].levels[a].v))
                   ELSE QNone

\* C23: a main-effect entry is emitted for a factor exactly when the factor
\* has at least 2 distinct observed levels; its effect is max - min of the
\* per-level response means, each taken over the runs with a response at
\* that level; its levels list is sorted ascending and its means list is
\* aligned with it, null where a level has no data; on the 2^3 example the
\* effects are M = 10, C = 20, P = 5.
C23_MainEffectEntries ==
    Answered =>
        /\ EntryIffTwoObservedLevels
        /\ EffectIsRangeOfLevelMeans
        /\ LevelsAscend
        /\ MeansAlignedWithLevels
        /\ experiment = Montgomery =>
              /\ DOMAIN MainEffects = {1, 2, 3}
              /\ MainEffects[1].effect = QInt(10)
              /\ MainEffects[2].effect = QInt(20)
              /\ MainEffects[3].effect = QInt(5)


Interactions == response.results.effects.interactions

FactorPairs ==
    {pr \in (1..FactorCount) \X (1..FactorCount) : pr[1] < pr[2]}

\* the included runs that store v1 for the first and v2 for the second
\* factor of the pair and a number for the response
RunsInCell(pr, v1, v2) == RunsAtLevel(pr[1], v1) \cap RunsAtLevel(pr[2], v2)

\* the level a key of cell_means names for factor j
LevelAt(j, a) == LevelsOf(Column(service.df_design, j))[a]

CellMeans(pr) ==
    {MeanOverRuns(RunsInCell(pr, v1, v2)) :
        v1 \in ObservedValues(pr[1]), v2 \in ObservedValues(pr[2])} \ {QNone}

C24_WitnessThreeFactors ==
    /\ Answered
    /\ FactorCount = 3
    /\ DOMAIN Interactions = {<<1, 2>>, <<1, 3>>, <<2, 3>>}


----------------------------------------------------------------------------
(* The rows of the ANOVA table.                                            *)

OtherRows == 1..(Len(AnovaTable) - 1)

TotalRow == AnovaTable[Len(AnovaTable)]

\* the numbers of the field among the rows above the Total row
PresentIn(field) == {a \in OtherRows : AnovaTable[a][field].t = "num"}

\* the model computed the field in every row above the Total row
KnownIn(field) == \A a \in OtherRows : AnovaTable[a][field].t # "lib"

\* C25: the ANOVA table ends with exactly one row whose source is 'Total';
\* its df is the sum of the non-null df of all other rows, its sum_sq the
\* sum of their non-null sum_sq, and its mean_sq, f_value and p_value are
\* null; every other row has mean_sq = sum_sq / df when df > 0 and null
\* otherwise, and is_significant true exactly when its p-value is present
\* and below 0.05.
C25_TotalRowAndMeanSquares ==
    Answered =>
        /\ TotalRow.source = TotalLabel
        /\ \A a \in OtherRows : AnovaTable[a].source # TotalLabel
        /\ KnownIn("df") =>
              TotalRow.df = SumOver([a \in OtherRows |-> AnovaTable[a].df],
                                    PresentIn("df"))
        /\ KnownIn("sum_sq") =>
              TotalRow.sum_sq = SumOver([a \in OtherRows |-> AnovaTable[a].sum_sq],
                                        PresentIn("sum_sq"))
        /\ TotalRow.mean_sq = QNone
        /\ TotalRow.f_value = QNone
        /\ TotalRow.p_value = QNone
        /\ \A a \in OtherRows :
              /\ (/\ AnovaTable[a].df.t # "lib"
                  /\ AnovaTable[a].sum_sq.t # "lib" \/ AnovaTable[a].df = QInt(0)) =>
                    AnovaTable[a].mean_sq
                       = IF /\ AnovaTable[a].df.t = "num"
                            /\ QLess(QInt(0), AnovaTable[a].df)
                            /\ AnovaTable[a].sum_sq.t = "num"
                         THEN QDiv(AnovaTable[a].sum_sq, AnovaTable[a].df)
                         ELSE QNone
              /\ AnovaTable[a].is_significant
                    <=> /\ AnovaTable[a].p_value.t = "num"
                        /\ QLess(AnovaTable[a].p_value, Q(5, 100))

\* a table with computed numbers, a factor row with a mean square and a
\* p-value of exactly 0.05, and a Total row adding up the others
C25_Witness ==
    /\ Answered
    /\ KnownIn("df") /\ KnownIn("sum_sq")
    /\ \E a \in OtherRows :
          /\ AnovaTable[a].mean_sq.t = "num"
          /\ AnovaTable[a].mean_sq # QInt(0)
          /\ AnovaTable[a].p_value = Q(5, 100)
          /\ ~AnovaTable[a].is_significant
    /\ TotalRow.sum_sq.t = "num" /\ TotalRow.sum_sq # QInt(0)

\* a Residual row of df 0: no mean square
C25_WitnessNoResidualDf ==
    /\ Answered
    /\ \E a \in OtherRows :
          /\ AnovaTable[a].df = QInt(0)
          /\ AnovaTable[a].sum_sq.t # "none"
          /\ AnovaTable[a].mean_sq = QNone

\* a significant row
C25_WitnessSignificant ==
    /\ Answered
    /\ \E a \in OtherRows : AnovaTable[a].is_significant
    /\ \E a \in OtherRows : AnovaTable[a].p_value = QNone


\* the rows of the table that stand for a term of the model
TermRows == {a \in OtherRows : AnovaTable[a].term # <<>>}

\* the number of columns a categorical term takes: one less than the number
\* of observed levels for each member
RECURSIVE CategoricalColumns(_)
CategoricalColumns(members) ==
    IF members = <<>> THEN 1
    ELSE (Cardinality(ObservedValues(members[1])) - 1)
         * CategoricalColumns(Tail(members))

\* C26: for every number of factors k >= 1 the ANOVA model consists of
\* exactly the k main-effect terms and the k(k-1)/2 two-way interaction
\* terms, every factor being entered as categorical whatever its declared
\* kind (a term takes one column less than it has levels, per member), and
\* holds no interaction of order 3 or more, while the sign matrix of the same
\* experiment has interaction columns of every order from 2 to k.
C26_AnovaTermsUpToPairs ==
    Answered =>
        /\ {AnovaTable[a].term : a \in TermRows}
              = {<<j>> : j \in 1..FactorCount} \cup FactorPairs
        /\ 2 * Cardinality(TermRows)
              = 2 * FactorCount + FactorCount * (FactorCount - 1)
        /\ \A a \in TermRows :
              /\ Len(AnovaTable[a].term) <= 2
              /\ AnovaTable[a].df.t = "num" =>
                    AnovaTable[a].df = QInt(CategoricalColumns(AnovaTable[a].term))
        /\ \A size \in 2..FactorCount :
              \E c \in InteractionColumns : Len(SignMatrix.headers[c].factors) = size

\* three factors: six terms in the ANOVA table, none of the three factors
\* together, which the sign matrix has as a column
C26_Witness ==
    /\ Answered
    /\ FactorCount = 3
    /\ Cardinality(TermRows) = 6
    /\ \A a \in TermRows : AnovaTable[a].df = QInt(1)
    /\ \E c \in InteractionColumns : SignMatrix.headers[c].factors = <<1, 2, 3>>

----------------------------------------------------------------------------
(* import_from_excel: all of the request or none of it.                    *)

\* the two orders of each run of a list
OrdersOf(runs) ==
    [i \in DOMAIN runs |-> [standard_order |-> runs[i].standard_order,
                            run_order |-> runs[i].run_order]]

\* no two entries share a standard_order and no two share a run_order
AllDistinct(orders) ==
    \A a, b \in DOMAIN orders :
        a # b => /\ orders[a].standard_order # orders[b].standard_order
                 /\ orders[a].run_order # orders[b].run_order

\* the stored runs the request answered in the next state leaves alone
KeptRuns == IF response'.request.replace THEN <<>> ELSE experiment.runs

\* every run of that request passes validation: it collides neither with a
\* kept run nor with an earlier run of the request
RequestIsValid == AllDistinct(OrdersOf(KeptRuns) \o response'.request.runs)

ImportStep == response'.op = "import_from_excel"

\* a request with an invalid run stores nothing, deletes nothing, leaves the
\* status and reports created = 0
FailedImportChangesNothing ==
    (ImportStep /\ ~RequestIsValid) =>
        /\ experiment' = experiment
        /\ response'.status = HTTP_400_BAD_REQUEST
        /\ response'.created = 0

\* a request of valid runs stores them all after the kept runs
ValidImportStoresAll ==
    (ImportStep /\ RequestIsValid) =>
        /\ OrdersOf(experiment'.runs)
              = OrdersOf(KeptRuns) \o response'.request.runs
        /\ response'.status = HTTP_201_CREATED
        /\ response'.created = Len(response'.request.runs)

\* C28 as stated: import_from_excel is all-or-nothing: if any run of the
\* request fails validation, no run of the request is stored, no existing
\* run is deleted even when replace = true, the status is unchanged and the
\* response reports created = 0; if all runs are valid, all are stored
\* (after deleting the existing runs when replace = true) and a DRAFT
\* experiment becomes DESIGN_READY.
C28_AsStated ==
    [][/\ FailedImportChangesNothing
       /\ ValidImportStoresAll
       /\ (ImportStep /\ RequestIsValid /\ experiment.status = DRAFT)
             => experiment'.status = DESIGN_READY]_vars

\* C28: import_from_excel is all-or-nothing: a request with an invalid run
\* changes nothing and reports created = 0; a request of valid runs stores
\* them all (after deleting the existing runs when replace = true), and a
\* DRAFT experiment becomes DESIGN_READY when at least one run was stored,
\* every other status and the status after an empty request staying.
C28_ImportAllOrNothing ==
    [][/\ FailedImportChangesNothing
       /\ ValidImportStoresAll
       /\ (ImportStep /\ RequestIsValid) =>
             experiment'.status
                = IF experiment.status = DRAFT /\ Len(response'.request.runs) > 0
                  THEN DESIGN_READY
                  ELSE experiment.status]_vars

\* a replacing request whose second run repeats the first was refused: the
\* stored runs are still there
C28_Witness ==
    /\ response.op = "import_from_excel"
    /\ response.status = HTTP_400_BAD_REQUEST
    /\ response.created = 0
    /\ response.request.replace
    /\ Len(response.request.runs) = 2
    /\ Len(experiment.runs) > 0

\* two valid runs were stored and the experiment is ready
C28_WitnessStored ==
    /\ response.op = "import_from_excel"
    /\ response.status = HTTP_201_CREATED
    /\ response.created = 2
    /\ OrdersOf(experiment.runs) = response.request.runs
    /\ experiment.status = DESIGN_READY

\* an empty request was accepted and the experiment is still a draft
C28_WitnessEmptyRequest ==
    /\ response.op = "import_from_excel"
    /\ response.status = HTTP_201_CREATED
    /\ response.request.runs = <<>>
    /\ experiment.status = DRAFT

----------------------------------------------------------------------------
(* Scenario 8: the factor endpoints next to the requests that store and    *)
(* delete runs.  A stored factor carries its levels_config; response holds *)
(* the operation, the status answered and the symbols the request named.   *)

MaxStoredFactors == 3

\* the longest symbol a copy is given here (copies of copies grow with
\* every duplicate)
MaxSymbolLength == 8

FactorWithLevels(id, symbol, name, data_type, levels_config) ==
    [id |-> id, symbol |-> symbol, name |-> name, data_type |-> data_type,
     levels_config |-> levels_config]

\* a levels_config in the legacy dictionary form, and one given as a list
LegacyLevels == [is_dict |-> TRUE, low |-> 1, center |-> 2, high |-> 3]
ListLevels == [is_dict |-> FALSE, items |-> <<1, 2>>]

\* what a request to create a factor names
FactorData == [symbol : {KnownSymbols[1], KnownSymbols[2]},
               levels_config : {LegacyLevels, ListLevels}]

FactorLists ==
    {<<d>> : d \in FactorData} \cup {<<d1, d2>> : d1 \in FactorData, d2 \in FactorData}

\* ExperimentRun.objects.filter(experiment=experiment).exists()
runs_exist(exp) == Len(exp.runs) > 0

symbol_exists(factors, symbol) ==
    \E j \in DOMAIN factors : factors[j].symbol = symbol

\* FactorCreateSerializer.is_valid: validate_symbol and validate_levels_config
factor_is_valid(factors, data) ==
    /\ ~symbol_exists(factors, data.symbol)
    /\ data.levels_config.is_dict

\* serializer.save(experiment=experiment)
save_factor(factors, data) ==
    Append(factors, FactorWithLevels(next_id(factors), data.symbol,
                                     KnownFactorNames[1], "quantitative",
                                     data.levels_config))

\* the loop of FactorViewSet.bulk_create: each valid factor is saved, each
\* invalid one is reported
RECURSIVE save_each_factor(_, _, _)
save_each_factor(factors, datas, errors) ==
    IF datas = <<>> THEN [factors |-> factors, errors |-> errors]
    ELSE IF factor_is_valid(factors, datas[1])
    THEN save_each_factor(save_factor(factors, datas[1]), Tail(datas), errors)
    ELSE save_each_factor(factors, Tail(datas), errors + 1)

Decimal(n) == << <<"0">>, <<"1">>, <<"2">>, <<"3">>, <<"4">>, <<"5">> >>[n + 1]

\* the symbol duplicate gives the copy: <base>_copy, or the first free
\* <base>_copy_<counter>
RECURSIVE numbered_copy_symbol(_, _, _)
numbered_copy_symbol(factors, base_symbol, counter) ==
    IF symbol_exists(factors, base_symbol \o <<"_", "c", "o", "p", "y", "_">>
                                          \o Decimal(counter))
    THEN numbered_copy_symbol(factors, base_symbol, counter + 1)
    ELSE base_symbol \o <<"_", "c", "o", "p", "y", "_">> \o Decimal(counter)

copy_symbol(factors, base_symbol) ==
    IF symbol_exists(factors, base_symbol \o <<"_", "c", "o", "p", "y">>)
    THEN numbered_copy_symbol(factors, base_symbol, 1)
    ELSE base_symbol \o <<"_", "c", "o", "p", "y">>

FactorAnswer(op, symbols, status) ==
    [op |-> op, data |-> <<>>, symbols |-> symbols, status |-> status]

InitFactors ==
    /\ pc = "edit"
    /\ obj = PyNone /\ cleaned = PyNone /\ recleaned = PyNone
    /\ lib = NoLib
    /\ experiment \in {[status |-> status, factors |-> <<>>,
                         response_variables |-> << ResponseVariable(1, 1) >>,
                         runs |-> <<>>] : status \in {DRAFT, DESIGN_READY}}
    /\ service = NoService
    /\ response = Answer("none", <<>>, 0)

\* FactorViewSet.create: the serializer, then perform_create
FactorCreate ==
    \E data \in FactorData :
        /\ IF factor_is_valid(experiment.factors, data) /\ ~runs_exist(experiment)
           THEN /\ Len(experiment.factors) < MaxStoredFactors
                /\ experiment' = [experiment EXCEPT !.factors = save_factor(@, data)]
                /\ response' = FactorAnswer("factor_create", <<data.symbol>>,
                                            HTTP_201_CREATED)
           ELSE /\ experiment' = experiment
                /\ response' = FactorAnswer("factor_create", <<data.symbol>>,
                                            HTTP_400_BAD_REQUEST)
        /\ UNCHANGED <<pc, obj, cleaned, recleaned, lib, service>>

\* FactorViewSet.destroy: perform_destroy (the framework's mixin answers 204)
FactorDestroy ==
    \E j \in DOMAIN experiment.factors :
        /\ IF runs_exist(experiment)
           THEN /\ experiment' = experiment
                /\ response' = FactorAnswer("factor_destroy",
                                            <<experiment.factors[j].symbol>>,
                                            HTTP_400_BAD_REQUEST)
           ELSE /\ experiment' = [experiment EXCEPT !.factors = without_entry(@, j)]
                /\ response' = FactorAnswer("factor_destroy",
                                            <<experiment.factors[j].symbol>>, 204)
        /\ UNCHANGED <<pc, obj, cleaned, recleaned, lib, service>>

\* FactorViewSet.duplicate
FactorDuplicate ==
    \E j \in DOMAIN experiment.factors :
        /\ Len(experiment.factors) < MaxStoredFactors
        /\ Len(copy_symbol(experiment.factors, experiment.factors[j].symbol))
              <= MaxSymbolLength
        /\ experiment' = [experiment EXCEPT !.factors =
              Append(@, FactorWithLevels(
                            next_id(@),
                            copy_symbol(@, @[j].symbol),
                            @[j].name \o <<" ", "(", "C", "o", "p", "y", ")">>,
                            @[j].data_type, @[j].levels_config))]
        /\ response' = FactorAnswer("factor_duplicate",
                                    <<experiment.factors[j].symbol>>,
                                    HTTP_201_CREATED)
        /\ UNCHANGED <<pc, obj, cleaned, recleaned, lib, service>>

\* FactorViewSet.bulk_create with one or two factors
FactorBulkCreate ==
    \E datas \in FactorLists :
        /\ Len(experiment.factors) + Len(datas) <= MaxStoredFactors
        /\ \E out \in {save_each_factor(experiment.factors, datas, 0)} :
              /\ experiment' = [experiment EXCEPT !.factors = out.factors]
              /\ response' = FactorAnswer("factor_bulk_create",
                                 [i \in DOMAIN datas |-> datas[i].symbol],
                                 IF out.errors > 0 THEN HTTP_400_BAD_REQUEST
                                 ELSE HTTP_201_CREATED)
        /\ UNCHANGED <<pc, obj, cleaned, recleaned, lib, service>>

NextFactors ==
    \/ FactorCreate
    \/ FactorDestroy
    \/ FactorDuplicate
    \/ FactorBulkCreate
    \/ RunCreate
    \/ GenerateRuns
    \/ DeleteAllRuns

SpecFactors == InitFactors /\ [][NextFactors]_vars

FactorOperations ==
    {"factor_create", "factor_destroy", "factor_duplicate", "factor_bulk_create"}

\* C27: while an experiment has at least one run, no operation of the factor
\* endpoints (create, bulk_create, duplicate, destroy) adds a factor to it or
\* removes a factor from it: the attempt is rejected with a validation error
\* and the factor set is unchanged; once all runs are deleted, adding and
\* deleting factors is possible again.
C27_FactorsFrozenWhileRunsExist ==
    [][/\ (response'.op \in FactorOperations /\ runs_exist(experiment)) =>
             /\ experiment'.factors = experiment.factors
             /\ response'.status = HTTP_400_BAD_REQUEST
       /\ (response'.op = "factor_destroy" /\ ~runs_exist(experiment)) =>
             /\ Len(experiment'.factors) = Len(experiment.factors) - 1
             /\ response'.status = 204
       /\ (/\ response'.op = "factor_create" /\ ~runs_exist(experiment)
           /\ response'.status = HTTP_201_CREATED) =>
             /\ Len(experiment'.factors) = Len(experiment.factors) + 1
             /\ symbol_exists(experiment'.factors, response'.symbols[1])]_vars

\* without runs a factor can be created and deleted
FactorsEditableWithoutRuns ==
    [][/\ (response'.op = "factor_destroy" /\ ~runs_exist(experiment)) =>
             /\ Len(experiment'.factors) = Len(experiment.factors) - 1
             /\ response'.status = 204
       /\ (/\ response'.op = "factor_create" /\ ~runs_exist(experiment)
           /\ ~symbol_exists(experiment.factors, response'.symbols[1])
           /\ response'.status = HTTP_201_CREATED) =>
             /\ Len(experiment'.factors) = Len(experiment.factors) + 1
             /\ symbol_exists(experiment'.factors, response'.symbols[1])]_vars

\* create and destroy are refused while a run is stored
CreateAndDestroyFrozenWhileRunsExist ==
    [][(response'.op \in {"factor_create", "factor_destroy"}
          /\ runs_exist(experiment)) =>
             /\ experiment'.factors = experiment.factors
             /\ response'.status = HTTP_400_BAD_REQUEST]_vars

\* a factor was duplicated while a run was stored
DuplicatedWhileRunsExist ==
    /\ response.op = "factor_duplicate"
    /\ response.status = HTTP_201_CREATED
    /\ runs_exist(experiment)
    /\ Len(experiment.factors) = 2

----------------------------------------------------------------------------
(* generate_runs and delete_all_runs.                                      *)

\* the levels generate_runs takes from a factor's levels_config
factor_levels(factor) ==
    IF factor.levels_config.is_dict
    THEN <<factor.levels_config.low, factor.levels_config.center,
           factor.levels_config.high>>
    ELSE factor.levels_config.items

RECURSIVE LevelProduct(_)
LevelProduct(factors) ==
    IF factors = <<>> THEN 1
    ELSE Len(factor_levels(factors[1])) * LevelProduct(Tail(factors))

GenerateStep == response'.op = "generate_runs"

GenerationRefused == runs_exist(experiment) \/ Len(experiment.factors) = 0

\* a request on an experiment with runs or without factors is rejected and
\* changes nothing
RefusedGenerationChangesNothing ==
    (GenerateStep /\ GenerationRefused) =>
        /\ response'.status = HTTP_400_BAD_REQUEST
        /\ experiment' = experiment

\* delete_all_runs removes every run and moves DESIGN_READY back to DRAFT
DeleteAllRunsResets ==
    (response'.op = "delete_all_runs" /\ runs_exist(experiment)) =>
        /\ experiment'.runs = <<>>
        /\ experiment'.factors = experiment.factors
        /\ experiment'.status = IF experiment.status = DESIGN_READY
                                THEN DRAFT ELSE experiment.status

\* the two refusals and delete_all_runs do what is stated of them
RefusalsAndDeleteAllRuns ==
    [][RefusedGenerationChangesNothing /\ DeleteAllRunsResets]_vars

\* the runs a full factorial of the factors has, once or several times over,
\* numbered 1..N, the run orders being 1..N in some order, no response yet
GeneratedDesign(factors, runs) ==
    /\ Len(runs) > 0
    /\ Len(runs) % LevelProduct(factors) = 0
    /\ \A n \in DOMAIN runs :
          /\ runs[n].standard_order = n
          /\ runs[n].response_values = <<>>
    /\ {runs[n].run_order : n \in DOMAIN runs} = DOMAIN runs

\* C30: generate_runs on an experiment that already has runs, or that has no
\* factors, is rejected and changes nothing; otherwise it creates exactly
\* N = (product of the factors' level counts) x replicates runs whose
\* standard_order values are 1..N in creation order and whose run_order
\* values are a permutation of 1..N, each with empty response_values, and it
\* moves the experiment from DRAFT to DESIGN_READY (delete_all_runs moves
\* DESIGN_READY back to DRAFT).
C30_GenerateRuns ==
    [][/\ RefusedGenerationChangesNothing
       /\ DeleteAllRunsResets
       /\ (GenerateStep /\ ~GenerationRefused) =>
             /\ response'.status = HTTP_201_CREATED
             /\ GeneratedDesign(experiment.factors, experiment'.runs)
             /\ experiment'.status = IF experiment.status = DRAFT
                                     THEN DESIGN_READY
                                     ELSE experiment.status]_vars

\* generate_runs was asked of a draft with a factor and no run: the answer
\* is a server error, no run is stored and the draft is still a draft
GenerationFailed ==
    /\ response.op = "generate_runs"
    /\ response.status = HTTP_500_INTERNAL_SERVER_ERROR
    /\ Len(experiment.factors) > 0
    /\ experiment.runs = <<>>
    /\ experiment.status = DRAFT

==========================================================================
